---- MODULE Spec2Model ----
(***************************************************************************)
(* Model of the layer animation and frame-sequencing engine of             *)
(* app/renderer/playwright_renderer.py.                                    *)
(*                                                                         *)
(* Real-valued quantities (progress, eased progress, coordinates) are      *)
(* exact rationals <<num, den>> with den > 0, kept in lowest terms.  The   *)
(* two places where the binary64 rounding of the source reaches an         *)
(* integer or a printed digit are modelled explicitly: the truncation      *)
(* int((ms / 1000) * fps) of the frame plan (FloatMsToFrames) and the      *)
(* fixed-point formatting of the style values (FormatFixed).               *)
(***************************************************************************)
EXTENDS Integers, Sequences, FiniteSets, TLC

VARIABLES
    pc,             \* position of the call being modelled
    animation,      \* the animation descriptor (a dict; keys may be absent)
    fps,            \* frames per second
    out_dir,        \* TRUE when render_scene_layers was given an output_dir
    delay_frames,   \* frame plan of render_animated_layer
    anim_frames,
    hold_frames,
    total_frames,
    frame_idx,      \* loop variable of the frame loop
    css,            \* style of #anim-container on the page
    frames,         \* the frame list built by render_animated_layer
    ease_t,         \* argument t of a direct _ease call
    eased,          \* value returned by _ease
    frame_css,      \* value returned by _get_frame_css
    svg_path,       \* the path string, a sequence of characters
    num_points,     \* num_points of _extract_path_points
    canvas_width,
    canvas_height,
    points,         \* value returned by _extract_path_points
    layer,          \* the layer being rendered (a dict; keys may be absent)
    reveal_config,  \* reveal of the stroke layer
    frame,          \* loop variable of the mask loop
    progress,       \* progress argument of _generate_path_mask_html
    reveal_count,   \* reveal_count of _generate_path_mask_html
    visible_points, \* visible_points of _generate_path_mask_html
    masks,          \* the mask list built by _render_stroke_reveal
    stroke_result,  \* value returned by _render_stroke_reveal
    layers,         \* scene["layers"] given to render_scene_layers
    layer_idx,      \* position of the scene loop in layers, from 1
    render_animations,
    rendered,       \* the rendered dict of the current layer
    rendered_layers,
    stroke_reveals,
    origin,         \* history: the input position behind each output entry
    warnings,       \* records written by logger.warning
    calls,          \* history: the rasterizer calls, in order
    error,          \* the exception leaving render_scene_layers, if any
    scene_result,   \* value returned by render_scene_layers
    http_response,  \* what api_render_scene answers
    _playwright,    \* module global: the Playwright driver, or None
    _browser,       \* module global: the Chromium browser, or None
    drivers,        \* environment: the Playwright drivers that are running
    browsers,       \* environment: the browsers that are running
    starts,         \* environment: how many drivers were ever started
    launches,       \* environment: how many browsers were ever launched
    task,           \* the lifecycle call each caller is in
    result,         \* the director result given to _validate_result
    scene_i,        \* loop variable i of _validate_result, from 0
    original,       \* history: the scenes as they were given
    value_error,    \* the ValueError leaving _validate_result, if any
    text_layout,    \* argument of _calculate_occupied_areas
    areas,          \* value returned by _calculate_occupied_areas
    raw_context,    \* argument of build_motion_graphics_context
    context,        \* value returned by build_motion_graphics_context
    crop_to_content,
    bbox,           \* what page.evaluate reports in render_layer_to_png
    clip,           \* the region render_layer_to_png asks the page to capture
    capture         \* value returned by render_layer_to_png

vars == <<pc, animation, fps, out_dir, delay_frames, anim_frames, hold_frames,
          total_frames, frame_idx, css, frames, ease_t, eased, frame_css,
          svg_path, num_points, canvas_width, canvas_height, points,
          layer, reveal_config, frame, progress, reveal_count, visible_points,
          masks, stroke_result, layers, layer_idx, render_animations, rendered,
          rendered_layers, stroke_reveals, origin, warnings, calls, error,
          scene_result, http_response, _playwright, _browser, drivers,
          browsers, starts, launches, task, result, scene_i, original,
          value_error, text_layout, areas, raw_context, context,
          crop_to_content, bbox, clip, capture>>

animVars == <<animation, fps, out_dir, delay_frames, anim_frames, hold_frames,
              total_frames, frame_idx, css, frames>>
styleVars == <<ease_t, eased, frame_css>>
pathVars == <<svg_path, num_points, canvas_width, canvas_height, points>>
strokeVars == <<reveal_config, frame, progress, reveal_count, visible_points,
                masks, stroke_result>>
sceneVars == <<layer, layers, layer_idx, render_animations, rendered,
               rendered_layers, stroke_reveals, origin, warnings, calls, error,
               scene_result, http_response>>
browserVars == <<_playwright, _browser, drivers, browsers, starts, launches,
                 task>>
directorVars == <<result, scene_i, original, value_error>>
contextVars == <<text_layout, areas, raw_context, context>>
cropVars == <<crop_to_content, bbox, clip, capture>>
\* what the frame, style and path functions of the renderer never touch
otherVars == <<strokeVars, sceneVars, browserVars, directorVars, contextVars, cropVars>>

-----------------------------------------------------------------------------
(* Integer helpers *)

Max(a, b) == IF a >= b THEN a ELSE b
Min(a, b) == IF a <= b THEN a ELSE b
Abs(a) == IF a < 0 THEN -a ELSE a

RECURSIVE Gcd(_, _)
Gcd(a, b) == IF b = 0 THEN Abs(a) ELSE Gcd(b, a % Abs(b))

RECURSIVE Pow(_, _)
Pow(b, n) == IF n = 0 THEN 1 ELSE b * Pow(b, n - 1)

-----------------------------------------------------------------------------
(* Exact rationals <<num, den>>, den > 0, in lowest terms *)

Rat(n, d) ==
    LET s == IF d < 0 THEN -1 ELSE 1
        g == Gcd(n, d)
    IN  <<(s * n) \div g, (s * d) \div g>>

RInt(n) == <<n, 1>>
Zero == RInt(0)
One == RInt(1)

RMul(a, b) ==
    LET g1 == Gcd(a[1], b[2])
        g2 == Gcd(b[1], a[2])
    IN  <<(a[1] \div g1) * (b[1] \div g2), (a[2] \div g2) * (b[2] \div g1)>>

RDiv(a, b) == RMul(a, IF b[1] < 0 THEN <<-b[2], -b[1]>> ELSE <<b[2], b[1]>>)

RAdd(a, b) ==
    LET g == Gcd(a[2], b[2])
        l == (a[2] \div g) * b[2]
    IN  Rat(a[1] * (b[2] \div g) + b[1] * (a[2] \div g), l)

RNeg(a) == <<-a[1], a[2]>>
RSub(a, b) == RAdd(a, RNeg(b))

RECURSIVE RPow(_, _)
RPow(a, n) == IF n = 0 THEN One ELSE RMul(a, RPow(a, n - 1))

\* a < b, a <= b for rationals, by the sign of the difference
RLt(a, b) == RSub(a, b)[1] < 0
RLe(a, b) == RSub(a, b)[1] <= 0
RMax(a, b) == IF RLt(a, b) THEN b ELSE a
RMin(a, b) == IF RLt(b, a) THEN b ELSE a

\* floor of a rational; int() of a non-negative float
RFloor(a) == a[1] \div a[2]

-----------------------------------------------------------------------------
(* binary64 arithmetic of the frame counts *)

RECURSIVE Log2Floor(_)
\* floor(log2(n)) for an integer n >= 1
Log2Floor(n) == IF n < 2 THEN 0 ELSE 1 + Log2Floor(n \div 2)

RECURSIVE ShiftsTo1000(_)
\* least j with ms * 2^j >= 1000, for 1 <= ms
ShiftsTo1000(ms) == IF ms >= 1000 THEN 0 ELSE 1 + ShiftsTo1000(2 * ms)

\* floor(log2(ms / 1000)) for ms >= 1: the binary exponent of the quotient
MsExponent(ms) ==
    IF ms >= 1000 THEN Log2Floor(ms \div 1000) ELSE -ShiftsTo1000(ms)

RECURSIVE PowMod(_, _, _)
PowMod(b, n, m) == IF n = 0 THEN 1 % m ELSE (b * PowMod(b, n - 1, m)) % m

\* int((ms / 1000) * rate) as binary64 computes it, for integers ms >= 0 and
\* rate >= 1.
\* ms / 1000 is rounded to a 53-bit significand (round to nearest, ties to
\* even), the product with fps is rounded again, and int() truncates.  When
\* ms * fps is no multiple of 1000 the exact product is at least 1/1000 away
\* from an integer and the rounding cannot reach it.  When it is a multiple N
\* of 1000, the rounded quotient q = ms/1000 - R/1000 ulp(q) lies below the
\* exact one iff its remainder R (of ms * 2^(52-e) by 1000) is in 1..499, and
\* the product rounds to the double below N iff R * fps ulp(q) / 1000
\* exceeds half the gap between N and its predecessor.
FloatMsToFrames(ms, rate) ==
    LET n == ms * rate
        N == n \div 1000
    IN  IF n % 1000 # 0 \/ n = 0 THEN N
        ELSE LET e == MsExponent(ms)
                 r2 == ((ms % 2000) * PowMod(2, 52 - e, 2000)) % 2000
                 R == r2 % 1000
                 floorOdd == r2 >= 1000
                 roundsDown == (0 < R /\ R < 500) \/ (R = 500 /\ ~floorOdd)
                 E == Log2Floor(N)
                 k == E - e + 1 - (IF Pow(2, E) = N THEN 1 ELSE 0)
             IN  IF roundsDown /\ 4 * R * rate > 1000 * Pow(2, k)
                 THEN N - 1 ELSE N

-----------------------------------------------------------------------------
(* render_animated_layer: the frame plan *)

\* dict.get(key, default)
Get(d, key, default) == IF key \in DOMAIN d THEN d[key] ELSE default
\* the empty dict
NoDict == [k \in {} |-> 0]

\* a variant that rounds to the nearest frame
DelayFramesRounded(delay_ms, f) == (delay_ms * f + 500) \div 1000
DelayFrames(delay_ms, f) == FloatMsToFrames(delay_ms, f)
AnimFrames(duration_ms, f) == Max(1, FloatMsToFrames(duration_ms, f))
HoldFrames == 2
\* a variant that forgets the hold frames
TotalFramesNoHold(d, a, h) == d + a
TotalFrames(d, a, h) == d + a + h

PlanFrames ==
    /\ pc = "plan"
    /\ LET duration_ms == Get(animation, "duration_ms", 500)
           delay_ms == Get(animation, "delay_ms", 0)
       IN  /\ delay_frames' = DelayFrames(delay_ms, fps)
           /\ anim_frames' = AnimFrames(duration_ms, fps)
           /\ hold_frames' = HoldFrames
           /\ total_frames' = TotalFrames(delay_frames', anim_frames', hold_frames')
    /\ frame_idx' = 0
    /\ frames' = <<>>
    /\ pc' = "loop"
    /\ UNCHANGED <<animation, fps, out_dir, css, styleVars, pathVars,
                   otherVars>>

-----------------------------------------------------------------------------
(* Easing functions *)

\* a variant with two digits of the constant transposed
c1_transposed == Rat(170518, 100000)
c1 == Rat(170158, 100000)
c3 == RAdd(c1, One)

\* a variant whose ease-out multiplies where the source squares
_ease_product(t, easing) ==
    LET tc == RMax(Zero, RMin(One, t))
    IN  CASE easing = "linear" -> tc
          [] easing = "ease-in" -> RMul(tc, tc)
          [] easing = "ease-out" -> RSub(One, RMul(RSub(One, tc), RInt(2)))
          [] easing = "ease-in-out" ->
                RSub(RMul(RInt(3), RMul(tc, tc)),
                     RMul(RInt(2), RMul(tc, RMul(tc, tc))))
          [] easing = "ease-out-cubic" -> RSub(One, RPow(RSub(One, tc), 3))
          [] easing = "ease-out-back" ->
                RAdd(RAdd(One, RMul(c3, RPow(RSub(tc, One), 3))),
                     RMul(c1, RPow(RSub(tc, One), 2)))
          [] OTHER -> RSub(One, RPow(RSub(One, tc), 2))

\* a variant whose default is linear
_ease_default_linear(t, easing) ==
    LET tc == RMax(Zero, RMin(One, t))
    IN  CASE easing = "linear" -> tc
          [] easing = "ease-in" -> RMul(tc, tc)
          [] easing = "ease-out" -> RSub(One, RPow(RSub(One, tc), 2))
          [] easing = "ease-in-out" ->
                RSub(RMul(RInt(3), RMul(tc, tc)),
                     RMul(RInt(2), RMul(tc, RMul(tc, tc))))
          [] easing = "ease-out-cubic" -> RSub(One, RPow(RSub(One, tc), 3))
          [] easing = "ease-out-back" ->
                RAdd(RAdd(One, RMul(c3, RPow(RSub(tc, One), 3))),
                     RMul(c1, RPow(RSub(tc, One), 2)))
          [] OTHER -> tc

_ease(t, easing) ==
    LET tc == RMax(Zero, RMin(One, t))
    IN  CASE easing = "linear" -> tc
          [] easing = "ease-in" -> RMul(tc, tc)
          [] easing = "ease-out" -> RSub(One, RPow(RSub(One, tc), 2))
          [] easing = "ease-in-out" ->
                RSub(RMul(RInt(3), RMul(tc, tc)),
                     RMul(RInt(2), RMul(tc, RMul(tc, tc))))
          [] easing = "ease-out-cubic" -> RSub(One, RPow(RSub(One, tc), 3))
          [] easing = "ease-out-back" ->
                RAdd(RAdd(One, RMul(c3, RPow(RSub(tc, One), 3))),
                     RMul(c1, RPow(RSub(tc, One), 2)))
          [] OTHER -> RSub(One, RPow(RSub(One, tc), 2))

-----------------------------------------------------------------------------
(* CSS of one animation frame *)

\* The integers a format specification "{x:.<digits>f}" can print for x, in
\* units of 10^-digits: the nearest one, and both neighbours when x lies
\* exactly halfway (the binary64 value of x then falls on either side).
FormatFixed(x, digits) ==
    LET y == RMul(x, RInt(Pow(10, digits)))
        f == y[1] \div y[2]
        r == y[1] % y[2]
    IN  IF r < y[2] - r THEN {f}
        ELSE IF r > y[2] - r THEN {f + 1}
        ELSE {f, f + 1}

\* A style state: opacity in thousandths; transform "none", "scale" (amount in
\* thousandths), "translateX" or "translateY" (amount in tenths of a pixel);
\* origin is TRUE when transform-origin:center center is set.
Style(o, tr, a, org) == [opacity |-> o, transform |-> tr, amount |-> a, origin |-> org]

Opacity(o) == {Style(v, "none", 0, FALSE) : v \in FormatFixed(o, 3)}
Scaled(s, o) ==
    {Style(v, "scale", w, TRUE) : v \in FormatFixed(o, 3), w \in FormatFixed(s, 3)}
Translated(axis, d, o) ==
    {Style(v, axis, w, FALSE) : v \in FormatFixed(o, 3), w \in FormatFixed(d, 1)}

\* a variant whose middle piece falls by 0.25 instead of 0.20
BounceScaleSteep(p) ==
    IF RLt(p, Rat(6, 10))
      THEN RMul(RDiv(p, Rat(6, 10)), Rat(115, 100))
    ELSE IF RLt(p, Rat(8, 10))
      THEN RSub(Rat(115, 100),
                RMul(RDiv(RSub(p, Rat(6, 10)), Rat(2, 10)), Rat(25, 100)))
    ELSE RAdd(Rat(95, 100),
              RMul(RDiv(RSub(p, Rat(8, 10)), Rat(2, 10)), Rat(5, 100)))

\* scale of bounce_in: 0 -> 1.15 -> 0.95 -> 1.0
BounceScale(p) ==
    IF RLt(p, Rat(6, 10))
      THEN RMul(RDiv(p, Rat(6, 10)), Rat(115, 100))
    ELSE IF RLt(p, Rat(8, 10))
      THEN RSub(Rat(115, 100),
                RMul(RDiv(RSub(p, Rat(6, 10)), Rat(2, 10)), Rat(20, 100)))
    ELSE RAdd(Rat(95, 100),
              RMul(RDiv(RSub(p, Rat(8, 10)), Rat(2, 10)), Rat(5, 100)))

_get_frame_css(effect, prog) ==
    LET p == prog
    IN  CASE effect = "fade_in" -> Opacity(p)
          [] effect = "scale_up" ->
                Scaled(RAdd(Rat(3, 10), RMul(Rat(7, 10), p)), p)
          [] effect = "scale_down" ->
                Scaled(RSub(Rat(15, 10), RMul(Rat(5, 10), p)), p)
          [] effect = "slide_up" ->
                Translated("translateY", RMul(RInt(120), RSub(One, p)), p)
          [] effect = "slide_down" ->
                Translated("translateY", RMul(RInt(-120), RSub(One, p)), p)
          [] effect = "slide_left" ->
                Translated("translateX", RMul(RInt(120), RSub(One, p)), p)
          [] effect = "slide_right" ->
                Translated("translateX", RMul(RInt(-120), RSub(One, p)), p)
          [] effect = "bounce_in" ->
                Scaled(BounceScale(p), RMin(RMul(p, RInt(2)), One))
          [] effect = "fade_out" -> Opacity(RSub(One, p))
          [] effect = "scale_out" ->
                Scaled(RAdd(One, RMul(Rat(5, 10), p)), RSub(One, p))
          [] OTHER -> Opacity(p)

-----------------------------------------------------------------------------
(* render_animated_layer: the frame loop *)

\* "opacity:0;" of the delay phase
Transparent == Style(0, "none", 0, FALSE)

\* a variant that divides by anim_frames
FrameTShort(f) == Rat(f - delay_frames, Max(anim_frames, 1))

\* t = (frame_idx - delay_frames) / max(anim_frames - 1, 1)
FrameT(f) == Rat(f - delay_frames, Max(anim_frames - 1, 1))

\* frame f belongs to the animation phase
Animating(f) == f >= delay_frames /\ f < delay_frames + anim_frames

\* a variant whose progress divides by anim_frames
FrameCssShort(f) ==
    LET effect == Get(animation, "effect", "fade_in")
        easing == Get(animation, "easing", "ease-out")
    IN  IF f < delay_frames THEN {Transparent}
        ELSE IF f >= delay_frames + anim_frames
          THEN _get_frame_css(effect, One)
        ELSE LET t == Rat(f - delay_frames, Max(anim_frames, 1))
                 eased_t == _ease(t, easing)
             IN  _get_frame_css(effect, eased_t)

\* a variant whose hold phase stays at progress 0
FrameCssHoldStart(f) ==
    LET effect == Get(animation, "effect", "fade_in")
        easing == Get(animation, "easing", "ease-out")
    IN  IF f < delay_frames THEN {Transparent}
        ELSE IF f >= delay_frames + anim_frames
          THEN _get_frame_css(effect, Zero)
        ELSE LET t == Rat(f - delay_frames, Max(anim_frames - 1, 1))
                 eased_t == _ease(t, easing)
             IN  _get_frame_css(effect, eased_t)

\* a variant whose easing defaults to ease-out-back
FrameCssBackDefault(f) ==
    LET effect == Get(animation, "effect", "fade_in")
        easing == Get(animation, "easing", "ease-out-back")
    IN  IF f < delay_frames THEN {Transparent}
        ELSE IF f >= delay_frames + anim_frames
          THEN _get_frame_css(effect, One)
        ELSE LET t == Rat(f - delay_frames, Max(anim_frames - 1, 1))
                 eased_t == _ease(t, easing)
             IN  _get_frame_css(effect, eased_t)

\* The css the loop body computes for frame f
FrameCss(f) ==
    LET effect == Get(animation, "effect", "fade_in")
        easing == Get(animation, "easing", "ease-out")
    IN  IF f < delay_frames THEN {Transparent}
        ELSE IF f >= delay_frames + anim_frames
          THEN _get_frame_css(effect, One)
        ELSE LET t == FrameT(f)
                 eased_t == _ease(t, easing)
             IN  _get_frame_css(effect, eased_t)

\* a variant that applies the style of the frame after
ApplyStyleAhead ==
    /\ pc = "loop"
    /\ frame_idx < total_frames
    /\ css' \in FrameCss(frame_idx + 1)
    /\ ease_t' = IF Animating(frame_idx + 1) THEN FrameT(frame_idx + 1)
                 ELSE ease_t
    /\ pc' = "shot"
    /\ UNCHANGED <<animation, fps, out_dir, delay_frames, anim_frames,
                   hold_frames, total_frames, frame_idx, frames, eased,
                   frame_css, pathVars, otherVars>>

\* the css of the frame is computed, t being assigned in the animation
\* phase only, and page.evaluate(...) applies it to the container
ApplyStyle ==
    /\ pc = "loop"
    /\ frame_idx < total_frames
    /\ css' \in FrameCss(frame_idx)
    /\ ease_t' = IF Animating(frame_idx) THEN FrameT(frame_idx) ELSE ease_t
    /\ pc' = "shot"
    /\ UNCHANGED <<animation, fps, out_dir, delay_frames, anim_frames,
                   hold_frames, total_frames, frame_idx, frames, eased,
                   frame_css, pathVars, otherVars>>

\* a variant that numbers the frames from 1
ScreenshotOneBased ==
    /\ pc = "shot"
    /\ frames' = Append(frames, [frame |-> frame_idx + 1, png |-> css])
    /\ frame_idx' = frame_idx + 1
    /\ pc' = "loop"
    /\ UNCHANGED <<animation, fps, out_dir, delay_frames, anim_frames,
                   hold_frames, total_frames, css, styleVars, pathVars,
                   otherVars>>

\* page.screenshot(...) and frames.append(...): the raster shows the page as
\* it is styled at the capture
Screenshot ==
    /\ pc = "shot"
    /\ frames' = Append(frames, [frame |-> frame_idx, png |-> css])
    /\ frame_idx' = frame_idx + 1
    /\ pc' = "loop"
    /\ UNCHANGED <<animation, fps, out_dir, delay_frames, anim_frames,
                   hold_frames, total_frames, css, styleVars, pathVars,
                   otherVars>>

\* the loop is exhausted: render_animated_layer returns its result dict
ReturnFrames ==
    /\ pc = "loop"
    /\ frame_idx >= total_frames
    /\ pc' = IF out_dir THEN "store" ELSE "done"
    /\ UNCHANGED <<animVars, styleVars, pathVars, otherVars>>

RECURSIVE Digits(_)
\* decimal digits of n >= 0, most significant first
Digits(n) == IF n < 10 THEN <<n>> ELSE Append(Digits(n \div 10), n % 10)

RECURSIVE ZeroPad(_, _)
\* "{n:04d}" for width 4: zero-padded on the left to at least width digits
ZeroPad(ds, width) == IF Len(ds) >= width THEN ds ELSE ZeroPad(<<0>> \o ds, width)

\* the characters of a digit sequence
DigitNames(ds) ==
    [k \in 1..Len(ds) |->
        <<"0", "1", "2", "3", "4", "5", "6", "7", "8", "9">>[ds[k] + 1]]

\* out_dir / f"{layer_id}_frames"; identifiers and paths are strings, kept
\* as the sequence of their pieces
FramesDir(layer_id) == layer_id \o <<"_frames">>

\* frames_dir / f"frame_{frame:04d}.png"
FramePath(idx) ==
    FramesDir(Get(layer, "id", <<"unknown">>)) \o <<"/", "frame_">>
        \o DigitNames(ZeroPad(Digits(idx), 4)) \o <<".png">>

\* render_scene_layers with an output_dir: the frames are written to
\* frames_dir and the list is re-keyed from png_base64 to png_path
StoreFrames ==
    /\ pc = "store"
    /\ frames' = [i \in 1..Len(frames) |->
                    [frame |-> frames[i].frame,
                     png_path |-> FramePath(frames[i].frame)]]
    /\ pc' = "done"
    /\ UNCHANGED <<animation, fps, out_dir, delay_frames, anim_frames,
                   hold_frames, total_frames, frame_idx, css,
                   styleVars, pathVars, otherVars>>

-----------------------------------------------------------------------------
(* Direct calls of the pure functions *)

CallEase ==
    /\ pc = "ease"
    /\ eased' = _ease(ease_t, Get(animation, "easing", "ease-out"))
    /\ pc' = "css"
    /\ UNCHANGED <<animVars, ease_t, frame_css, pathVars, otherVars>>

CallGetFrameCss ==
    /\ pc = "css"
    /\ frame_css' \in _get_frame_css(Get(animation, "effect", "fade_in"), eased)
    /\ pc' = "styled"
    /\ UNCHANGED <<animVars, ease_t, eased, pathVars, otherVars>>

-----------------------------------------------------------------------------
(* Stroke path sampler *)

DigitChars == {"0", "1", "2", "3", "4", "5", "6", "7", "8", "9"}
DigitValue(c) ==
    CASE c = "0" -> 0 [] c = "1" -> 1 [] c = "2" -> 2 [] c = "3" -> 3
      [] c = "4" -> 4 [] c = "5" -> 5 [] c = "6" -> 6 [] c = "7" -> 7
      [] c = "8" -> 8 [] c = "9" -> 9

RECURSIVE DigitsEnd(_, _)
\* \d* from position j of s: the position after the run of digits
DigitsEnd(s, j) ==
    IF j <= Len(s) /\ s[j] \in DigitChars THEN DigitsEnd(s, j + 1) ELSE j

\* [-+]?(?:\d+\.?\d*|\.\d+) matched at position i of s: the position after
\* the (greedy) match, or 0 when the pattern does not match at i
MatchEnd(s, i) ==
    LET j == IF s[i] \in {"-", "+"} THEN i + 1 ELSE i
    IN  IF j <= Len(s) /\ s[j] \in DigitChars
          THEN LET k == DigitsEnd(s, j)
               IN  IF k <= Len(s) /\ s[k] = "." THEN DigitsEnd(s, k + 1) ELSE k
        ELSE IF j + 1 <= Len(s) /\ s[j] = "." /\ s[j + 1] \in DigitChars
          THEN DigitsEnd(s, j + 1)
        ELSE 0

RECURSIVE FindAll(_, _)
\* re.findall: the non-overlapping matches from position i on, left to right
FindAll(s, i) ==
    IF i > Len(s) THEN <<>>
    ELSE LET e == MatchEnd(s, i)
         IN  IF e = 0 THEN FindAll(s, i + 1)
             ELSE <<SubSeq(s, i, e - 1)>> \o FindAll(s, e)

RECURSIVE DigitsValue(_)
\* the number a run of digits writes (0 for the empty run)
DigitsValue(ds) ==
    IF ds = <<>> THEN 0
    ELSE 10 * DigitsValue(SubSeq(ds, 1, Len(ds) - 1)) + DigitValue(ds[Len(ds)])

\* float(n) of a matched token
ParseFloat(tok) ==
    LET signed == tok[1] \in {"-", "+"}
        body == IF signed THEN SubSeq(tok, 2, Len(tok)) ELSE tok
        dot == DigitsEnd(body, 1)
        whole == SubSeq(body, 1, dot - 1)
        frac == SubSeq(body, dot + 1, Len(body))
        mag == Rat(DigitsValue(whole) * Pow(10, Len(frac)) + DigitsValue(frac),
                   Pow(10, Len(frac)))
    IN  IF tok[1] = "-" THEN RNeg(mag) ELSE mag

Numbers(path) ==
    LET toks == FindAll(path, 1)
    IN  [k \in 1..Len(toks) |-> ParseFloat(toks[k])]

\* the pairs (numbers[i], numbers[i + 1]) for i in range(0, len(numbers) - 1, 2)
RawPoints(numbers) ==
    [k \in 1..(Len(numbers) \div 2) |-> <<numbers[2 * k - 1], numbers[2 * k]>>]

\* [(i * 720 / num_points, 640) for i in range(num_points)]
FallbackLine(n) == [k \in 1..n |-> <<Rat((k - 1) * 720, n), RInt(640)>>]

\* a variant that divides by num_points, as the fallback line does
SampleParamOpen(i, n) == Rat(i, Max(n, 1))

\* t of sample i
SampleParam(i, n) == Rat(i, Max(n - 1, 1))

\* Samples of the polyline through raw_points.  Where t * total_segments is an
\* integer m the binary64 product can fall just below m; the source then
\* takes segment m - 1 at seg_t just below 1, which is the same point.
Interpolate(raw_points, n) ==
    LET total_segments == Len(raw_points) - 1
    IN  [k \in 1..n |->
           LET t == SampleParam(k - 1, n)
               ts == RMul(t, RInt(total_segments))
               seg == Min(RFloor(ts), total_segments - 1)
               seg_t == RSub(ts, RInt(seg))
               a == raw_points[seg + 1]
               b == raw_points[Min(seg + 1, Len(raw_points) - 1) + 1]
           IN  <<RAdd(a[1], RMul(RSub(b[1], a[1]), seg_t)),
                 RAdd(a[2], RMul(RSub(b[2], a[2]), seg_t))>>]

_extract_path_points(path, n) ==
    LET numbers == Numbers(path)
        raw_points == RawPoints(numbers)
    IN  IF Len(numbers) < 4 THEN FallbackLine(n)
        ELSE IF Len(raw_points) < 2 THEN FallbackLine(n)
        ELSE Interpolate(raw_points, n)

\* _generate_path_mask_html samples the path of the stroke
ExtractPathPoints ==
    /\ pc = "sample"
    /\ points' = _extract_path_points(svg_path, num_points)
    /\ pc' = "sampled"
    /\ UNCHANGED <<animVars, styleVars, svg_path, num_points, canvas_width,
                   canvas_height, otherVars>>

-----------------------------------------------------------------------------
(* Stroke reveal: the HQ raster and the sequence of luma masks *)

\* int(x): truncation toward zero
RTrunc(a) == IF a[1] >= 0 THEN RFloor(a) ELSE -RFloor(RNeg(a))

\* a variant without the lower clamp
RevealCountUnclamped(prog, pts) == RTrunc(RMul(prog, RInt(Len(pts))))

\* max(1, int(progress * len(points)))
RevealCount(prog, pts) == Max(1, RTrunc(RMul(prog, RInt(Len(pts)))))

\* points[:reveal_count], for reveal_count >= 1
VisiblePoints(pts, count) == SubSeq(pts, 1, Min(count, Len(pts)))

\* _generate_path_mask_html called directly: one white circle per visible
\* point on a black page
GeneratePathMaskHtml ==
    /\ pc = "mask"
    /\ points' = _extract_path_points(svg_path, num_points)
    /\ reveal_count' = RevealCount(progress, points')
    /\ visible_points' = VisiblePoints(points', reveal_count')
    /\ pc' = "masked"
    /\ UNCHANGED <<animVars, styleVars, svg_path, num_points, canvas_width,
                   canvas_height, reveal_config, frame, progress, masks,
                   stroke_result, sceneVars, browserVars, directorVars,
                   contextVars, cropVars>>

\* num_points: int = 60
DefaultNumPoints == 60

\* a variant that rounds to the nearest frame (half up)
StrokeTotalFramesRounded(duration_ms, f) == (2 * duration_ms * f + 1000) \div 2000

\* int((duration_ms / 1000) * fps)
StrokeTotalFrames(duration_ms, f) == FloatMsToFrames(duration_ms, f)

\* 1 - (1 - progress) ** 3
StrokeEase(prog) == RSub(One, RPow(RSub(One, prog), 3))

\* a variant that divides by total_frames
MaskProgressOpen(k, total) == Rat(k, Max(total, 1))

\* frame / max(total_frames - 1, 1)
MaskProgress(k, total) == Rat(k, Max(total - 1, 1))

StrokeId == Get(layer, "id", <<"stroke">>)
\* output_dir / f"{layer_id}_hq.png"
HqPath(layer_id) == layer_id \o <<"_hq.png">>
\* output_dir / f"{layer_id}_masks"
MasksDir(layer_id) == layer_id \o <<"_masks">>
\* mask_frames_dir / f"mask_{frame:04d}.png"
MaskPath(layer_id, idx) ==
    MasksDir(layer_id) \o <<"/", "mask_">> \o DigitNames(ZeroPad(Digits(idx), 4))
        \o <<".png">>

\* _render_stroke_reveal up to the mask loop: the layer is read, the frame
\* count computed and the HQ stroke rendered
StrokePlan ==
    /\ pc = "stroke"
    /\ svg_path' = Get(layer, "svg_path", <<>>)
    /\ reveal_config' = Get(layer, "reveal", NoDict)
    /\ total_frames' =
          StrokeTotalFrames(Get(reveal_config', "duration_ms", 1200), fps)
    /\ masks' = <<>>
    /\ frame' = 0
    /\ pc' = "masks"
    /\ UNCHANGED <<animation, fps, out_dir, delay_frames, anim_frames,
                   hold_frames, frame_idx, css, frames, styleVars, num_points,
                   canvas_width, canvas_height, points, progress, reveal_count,
                   visible_points, stroke_result, sceneVars, browserVars,
                   directorVars, contextVars, cropVars>>

\* one turn of the mask loop: the mask of the frame is generated, captured
\* and appended
MaskFrame ==
    /\ pc = "masks"
    /\ frame < total_frames
    /\ progress' = MaskProgress(frame, total_frames)
    /\ eased' = StrokeEase(progress')
    /\ num_points' = DefaultNumPoints
    /\ points' = _extract_path_points(svg_path, num_points')
    /\ reveal_count' = RevealCount(eased', points')
    /\ visible_points' = VisiblePoints(points', reveal_count')
    /\ masks' = Append(masks,
                  IF out_dir
                  THEN [frame |-> frame, png_path |-> MaskPath(StrokeId, frame)]
                  ELSE [frame |-> frame, png |-> visible_points'])
    /\ frame' = frame + 1
    /\ UNCHANGED <<pc, animVars, ease_t, frame_css, svg_path, canvas_width,
                   canvas_height, reveal_config, stroke_result, sceneVars,
                   browserVars, directorVars, contextVars, cropVars>>

\* the mask loop is exhausted: _render_stroke_reveal returns its result
StrokeReturn ==
    /\ pc = "masks"
    /\ frame >= total_frames
    /\ stroke_result' =
          [id |-> StrokeId, type |-> "stroke_reveal", masks |-> masks,
           reveal |-> reveal_config, total_frames |-> total_frames,
           fps |-> fps,
           hq |-> IF out_dir THEN HqPath(StrokeId) ELSE <<"hq_png_base64">>,
           masks_dir |-> IF out_dir THEN MasksDir(StrokeId) ELSE <<>>]
    /\ pc' = "stroke_done"
    /\ UNCHANGED <<animVars, styleVars, pathVars, reveal_config, frame,
                   progress, reveal_count, visible_points, masks, sceneVars,
                   browserVars, directorVars, contextVars, cropVars>>

-----------------------------------------------------------------------------
(* render_scene_layers: the scene loop *)

\* Python's None, where a dict is expected
NoneDict == [none |-> TRUE]
\* bool(d) of a dict or None
Truthy(d) == d # NoneDict /\ d # NoDict

LayerId == Get(layer, "id", <<"unknown">>)
LayerType == Get(layer, "type", "unknown")
LayerHtml == Get(layer, "html", "")
LayerAnimation == Get(layer, "animation", NoneDict)
LayerIsStatic == Get(layer, "is_static", TRUE)
\* layer.get("z_index", 100)
DefaultZIndex == 100

InScene == layer_idx \in 1..Len(layers)

\* out_dir / f"{layer_id}.png"
LayerPath(layer_id) == layer_id \o <<".png">>

\* the loop takes a stroke_reveal layer and calls _render_stroke_reveal
TakeStrokeLayer ==
    /\ pc = "scene"
    /\ InScene
    /\ layer' = layers[layer_idx]
    /\ Get(layer', "type", "unknown") = "stroke_reveal"
    /\ pc' = "stroke"
    /\ UNCHANGED <<animVars, styleVars, pathVars, strokeVars, layers,
                   layer_idx, render_animations, rendered, rendered_layers,
                   stroke_reveals, origin, warnings, calls, error,
                   scene_result, http_response, browserVars, directorVars,
                   contextVars, cropVars>>

\* a variant that skips the layer without a word
SkipLayerSilently ==
    /\ pc = "scene"
    /\ InScene
    /\ layer' = layers[layer_idx]
    /\ Get(layer', "type", "unknown") # "stroke_reveal"
    /\ Get(layer', "html", "") = ""
    /\ layer_idx' = layer_idx + 1
    /\ UNCHANGED <<pc, animVars, styleVars, pathVars, strokeVars, layers,
                   render_animations, rendered, rendered_layers,
                   stroke_reveals, origin, warnings, calls, error,
                   scene_result, http_response, browserVars, directorVars,
                   contextVars, cropVars>>

\* the loop takes a layer that has no html: a warning is logged and the
\* loop goes on
SkipLayer ==
    /\ pc = "scene"
    /\ InScene
    /\ layer' = layers[layer_idx]
    /\ Get(layer', "type", "unknown") # "stroke_reveal"
    /\ Get(layer', "html", "") = ""
    /\ warnings' = Append(warnings, Get(layer', "id", <<"unknown">>))
    /\ layer_idx' = layer_idx + 1
    /\ UNCHANGED <<pc, animVars, styleVars, pathVars, strokeVars, layers,
                   render_animations, rendered, rendered_layers,
                   stroke_reveals, origin, calls, error, scene_result,
                   http_response, browserVars, directorVars, contextVars, cropVars>>

\* the loop takes a layer that has html and calls render_layer_to_png
TakeHtmlLayer ==
    /\ pc = "scene"
    /\ InScene
    /\ layer' = layers[layer_idx]
    /\ Get(layer', "type", "unknown") # "stroke_reveal"
    /\ Get(layer', "html", "") # ""
    /\ pc' = "static"
    /\ UNCHANGED <<animVars, styleVars, pathVars, strokeVars, layers,
                   layer_idx, render_animations, rendered, rendered_layers,
                   stroke_reveals, origin, warnings, calls, error,
                   scene_result, http_response, browserVars, directorVars,
                   contextVars, cropVars>>

\* the rendered dict of the current layer, after the static render
Rendered ==
    [id |-> LayerId, type |-> LayerType,
     z_index |-> Get(layer, "z_index", DefaultZIndex),
     is_static |-> LayerIsStatic, animation |-> LayerAnimation,
     width |-> canvas_width, height |-> canvas_height,
     animation_sequence |-> NoneDict,
     png |-> IF out_dir THEN LayerPath(LayerId)
             ELSE <<"png_base64", LayerHtml>>]

\* a variant that does not ask whether the layer is static
WantsSequenceOfStatic == render_animations /\ Truthy(LayerAnimation)

\* render_animations and animation and not is_static
WantsSequence ==
    render_animations /\ Truthy(LayerAnimation) /\ ~LayerIsStatic

\* render_layer_to_png has returned the static raster: the rendered dict is
\* built and stored; then either render_animated_layer is called or the
\* dict is appended and the loop goes on
RenderLayerToPng ==
    /\ pc = "static"
    /\ rendered' = Rendered
    /\ calls' = Append(calls, [fn |-> "render_layer_to_png", layer |-> layer_idx])
    /\ IF WantsSequence
       THEN /\ animation' = LayerAnimation
            /\ pc' = "plan"
            /\ UNCHANGED <<rendered_layers, origin, layer_idx>>
       ELSE /\ rendered_layers' = Append(rendered_layers, rendered')
            /\ origin' = [origin EXCEPT !.layers = Append(@, layer_idx)]
            /\ layer_idx' = layer_idx + 1
            /\ pc' = "scene"
            /\ UNCHANGED animation
    /\ UNCHANGED <<fps, out_dir, delay_frames, anim_frames, hold_frames,
                   total_frames, frame_idx, css, frames, styleVars, pathVars,
                   strokeVars, layer, layers, render_animations,
                   stroke_reveals, warnings, error, scene_result,
                   http_response, browserVars, directorVars, contextVars, cropVars>>

\* the dict render_animated_layer returns, with frames_dir when the frames
\* were stored
AnimResult ==
    [frames |-> frames, total_frames |-> total_frames,
     delay_frames |-> delay_frames, anim_frames |-> anim_frames,
     hold_frames |-> hold_frames, fps |-> fps,
     duration_ms |-> Get(animation, "delay_ms", 0)
                       + Get(animation, "duration_ms", 500),
     effect |-> Get(animation, "effect", "fade_in"),
     frames_dir |-> IF out_dir THEN FramesDir(LayerId) ELSE <<>>]

\* render_animated_layer has returned (and its frames are stored, if an
\* output_dir was given): the sequence is attached, the dict appended
AttachSequence ==
    /\ pc = "done"
    /\ InScene
    /\ rendered' = [rendered EXCEPT !.animation_sequence = AnimResult]
    /\ calls' = Append(calls, [fn |-> "render_animated_layer", layer |-> layer_idx])
    /\ rendered_layers' = Append(rendered_layers, rendered')
    /\ origin' = [origin EXCEPT !.layers = Append(@, layer_idx)]
    /\ layer_idx' = layer_idx + 1
    /\ pc' = "scene"
    /\ UNCHANGED <<animVars, styleVars, pathVars, strokeVars, layer, layers,
                   render_animations, stroke_reveals, warnings, error,
                   scene_result, http_response, browserVars, directorVars,
                   contextVars, cropVars>>

\* a variant that files the stroke under the layers
CollectStrokeAsLayer ==
    /\ pc = "stroke_done"
    /\ InScene
    /\ rendered_layers' = Append(rendered_layers, stroke_result)
    /\ calls' = Append(calls, [fn |-> "_render_stroke_reveal", layer |-> layer_idx])
    /\ origin' = [origin EXCEPT !.layers = Append(@, layer_idx)]
    /\ layer_idx' = layer_idx + 1
    /\ pc' = "scene"
    /\ UNCHANGED <<animVars, styleVars, pathVars, strokeVars, layer, layers,
                   render_animations, rendered, stroke_reveals, warnings,
                   error, scene_result, http_response, browserVars,
                   directorVars, contextVars, cropVars>>

\* _render_stroke_reveal has returned: its result joins stroke_reveals
CollectStroke ==
    /\ pc = "stroke_done"
    /\ InScene
    /\ stroke_reveals' = Append(stroke_reveals, stroke_result)
    /\ calls' = Append(calls, [fn |-> "_render_stroke_reveal", layer |-> layer_idx])
    /\ origin' = [origin EXCEPT !.stroke_reveals = Append(@, layer_idx)]
    /\ layer_idx' = layer_idx + 1
    /\ pc' = "scene"
    /\ UNCHANGED <<animVars, styleVars, pathVars, strokeVars, layer, layers,
                   render_animations, rendered, rendered_layers, warnings,
                   error, scene_result, http_response, browserVars,
                   directorVars, contextVars, cropVars>>

\* the loop is exhausted: render_scene_layers returns
ReturnScene ==
    /\ pc = "scene"
    /\ layer_idx > Len(layers)
    /\ scene_result' = [layers |-> rendered_layers,
                        stroke_reveals |-> stroke_reveals]
    /\ pc' = "returned"
    /\ UNCHANGED <<animVars, styleVars, pathVars, strokeVars, layer, layers,
                   layer_idx, render_animations, rendered, rendered_layers,
                   stroke_reveals, origin, warnings, calls, error,
                   http_response, browserVars, directorVars, contextVars, cropVars>>

\* where a call of the rasterizer is awaited
RasterizerSteps == {"static", "plan", "loop", "shot", "stroke", "masks"}
\* what the rasterizer reports when it fails
RasterizerErrors == {<<"Timeout 30000ms exceeded.">>}

\* The rasterizer fails (crash, timeout).  No function of the renderer
\* catches: the exception of the rasterizer leaves render_scene_layers as
\* it was raised, and the locals of the call, rendered_layers and
\* stroke_reveals among them, are given up.
RasterizerFails ==
    /\ pc \in RasterizerSteps
    /\ InScene
    /\ \E m \in RasterizerErrors : error' = [message |-> m]
    /\ pc' = "raised"
    /\ UNCHANGED <<animVars, styleVars, pathVars, strokeVars, layer, layers,
                   layer_idx, render_animations, rendered, rendered_layers,
                   stroke_reveals, origin, warnings, calls, scene_result,
                   http_response, browserVars, directorVars, contextVars, cropVars>>

\* api_render_scene has a request in flight
Pending == [status_code |-> 0]

\* api_render_scene: return {"status": "success", **result}
ApiRenderSceneReturns ==
    /\ pc = "returned"
    /\ http_response = Pending
    /\ http_response' = [status_code |-> 200, status |-> "success",
                         layers |-> scene_result.layers,
                         stroke_reveals |-> scene_result.stroke_reveals]
    /\ pc' = "responded"
    /\ UNCHANGED <<animVars, styleVars, pathVars, strokeVars, layer, layers,
                   layer_idx, render_animations, rendered, rendered_layers,
                   stroke_reveals, origin, warnings, calls, error,
                   scene_result, browserVars, directorVars, contextVars, cropVars>>

\* api_render_scene: raise HTTPException(status_code=500, detail=str(e))
ApiRenderSceneRaises ==
    /\ pc = "raised"
    /\ http_response = Pending
    /\ http_response' = [status_code |-> 500, detail |-> error.message]
    /\ pc' = "responded"
    /\ UNCHANGED <<animVars, styleVars, pathVars, strokeVars, layer, layers,
                   layer_idx, render_animations, rendered, rendered_layers,
                   stroke_reveals, origin, warnings, calls, error,
                   scene_result, browserVars, directorVars, contextVars, cropVars>>

-----------------------------------------------------------------------------
(* Browser lifecycle *)

\* Python's None, where a handle is expected; handles count from 1
None == 0
\* the coroutines that call the lifecycle functions
Callers == {1, 2, 3}
\* op: the function called; at: the await it is suspended in; on: the
\* object whose method is awaited; ret: the value returned
NoTask == [op |-> "none", at |-> "idle", on |-> None, ret |-> None]
Free(c) == task[c].at \in {"idle", "returned"}
NoCallInFlight == \A c \in Callers : Free(c)

MaxLaunches == 4

\* a variant without the `if _browser is None` test
CallGetBrowserAlways(c) ==
    /\ Free(c)
    /\ starts < MaxLaunches
    /\ task' = [task EXCEPT ![c] = [op |-> "_get_browser", at |-> "start",
                                      on |-> None, ret |-> None]]
    /\ UNCHANGED <<pc, animVars, styleVars, pathVars, strokeVars, sceneVars,
                   _playwright, _browser, drivers, browsers, starts, launches,
                   directorVars, contextVars, cropVars>>

\* _get_browser is called: with a browser it returns it at once, without
\* one it awaits async_playwright().start()
CallGetBrowser(c) ==
    /\ Free(c)
    /\ IF _browser = None
       THEN /\ starts < MaxLaunches
            /\ task' = [task EXCEPT ![c] = [op |-> "_get_browser",
                           at |-> "start", on |-> None, ret |-> None]]
       ELSE task' = [task EXCEPT ![c] = [op |-> "_get_browser",
                        at |-> "returned", on |-> None, ret |-> _browser]]
    /\ UNCHANGED <<pc, animVars, styleVars, pathVars, strokeVars, sceneVars,
                   _playwright, _browser, drivers, browsers, starts, launches,
                   directorVars, contextVars, cropVars>>

\* start() completes: _playwright is assigned and chromium.launch(...) of
\* it awaited
PlaywrightStarted(c) ==
    /\ task[c].op = "_get_browser" /\ task[c].at = "start"
    /\ starts' = starts + 1
    /\ drivers' = drivers \cup {starts'}
    /\ _playwright' = starts'
    /\ task' = [task EXCEPT ![c].at = "launch", ![c].on = starts']
    /\ UNCHANGED <<pc, animVars, styleVars, pathVars, strokeVars, sceneVars,
                   _browser, browsers, launches, directorVars, contextVars, cropVars>>

\* launch(...) completes: _browser is assigned and returned
BrowserLaunched(c) ==
    /\ task[c].op = "_get_browser" /\ task[c].at = "launch"
    /\ launches' = launches + 1
    /\ browsers' = browsers \cup {launches'}
    /\ _browser' = launches'
    /\ task' = [task EXCEPT ![c].at = "returned", ![c].on = None,
                              ![c].ret = _browser']
    /\ UNCHANGED <<pc, animVars, styleVars, pathVars, strokeVars, sceneVars,
                   _playwright, drivers, starts, directorVars, contextVars, cropVars>>

\* shutdown_browser is called: it awaits _browser.close() if there is a
\* browser, else _playwright.stop() if there is a driver, else returns
CallShutdownBrowser(c) ==
    /\ Free(c)
    /\ task' = [task EXCEPT ![c] =
                  IF _browser # None
                  THEN [op |-> "shutdown_browser", at |-> "close",
                        on |-> _browser, ret |-> None]
                  ELSE IF _playwright # None
                  THEN [op |-> "shutdown_browser", at |-> "stop",
                        on |-> _playwright, ret |-> None]
                  ELSE [op |-> "shutdown_browser", at |-> "returned",
                        on |-> None, ret |-> None]]
    /\ UNCHANGED <<pc, animVars, styleVars, pathVars, strokeVars, sceneVars,
                   _playwright, _browser, drivers, browsers, starts, launches,
                   directorVars, contextVars, cropVars>>

\* close() completes: _browser = None; then _playwright.stop() is awaited
\* if there is a driver
BrowserClosed(c) ==
    /\ task[c].op = "shutdown_browser" /\ task[c].at = "close"
    /\ browsers' = browsers \ {task[c].on}
    /\ _browser' = None
    /\ task' = [task EXCEPT ![c] =
                  IF _playwright # None
                  THEN [@ EXCEPT !.at = "stop", !.on = _playwright]
                  ELSE [@ EXCEPT !.at = "returned", !.on = None]]
    /\ UNCHANGED <<pc, animVars, styleVars, pathVars, strokeVars, sceneVars,
                   _playwright, drivers, starts, launches, directorVars,
                   contextVars, cropVars>>

\* stop() completes: _playwright = None, and shutdown_browser returns
PlaywrightStopped(c) ==
    /\ task[c].op = "shutdown_browser" /\ task[c].at = "stop"
    /\ drivers' = drivers \ {task[c].on}
    /\ _playwright' = None
    /\ task' = [task EXCEPT ![c].at = "returned", ![c].on = None]
    /\ UNCHANGED <<pc, animVars, styleVars, pathVars, strokeVars, sceneVars,
                   _browser, browsers, starts, launches, directorVars,
                   contextVars, cropVars>>

-----------------------------------------------------------------------------
(* VisualLayoutDirector1._validate_result *)

\* if len(layers) > 15
LayerCap == 15

\* a variant that keeps the last 15 layers
TruncatedTail(ls) ==
    IF Len(ls) > LayerCap THEN SubSeq(ls, Len(ls) - LayerCap + 1, Len(ls))
    ELSE ls

\* layers[:15], taken when len(layers) > 15
Truncated(ls) == IF Len(ls) > LayerCap THEN SubSeq(ls, 1, LayerCap) ELSE ls

\* f"layer_{i}_{j}"
AutoId(i, j) ==
    <<"layer_">> \o DigitNames(Digits(i)) \o <<"_">> \o DigitNames(Digits(j))
\* 100 + j * 50
AutoZIndex(j) == 100 + j * 50

\* "html" not in layer and layer.get("type") != "stroke_reveal"
LacksHtml(l) == "html" \notin DOMAIN l /\ Get(l, "type", "None") # "stroke_reveal"

\* the layer after the loop body has run on it at position j of scene i
Filled(l, i, j) ==
    [key \in DOMAIN l \cup {"z_index", "id"} |->
        IF key \in DOMAIN l THEN l[key]
        ELSE IF key = "z_index" THEN AutoZIndex(j)
        ELSE AutoId(i, j)]

\* the layer list after the loop has run over it up to position upto
\* (from 0, exclusive)
FilledUpTo(ls, i, upto) ==
    [k \in 1..Len(ls) |-> IF k - 1 < upto THEN Filled(ls[k], i, k - 1) ELSE ls[k]]

\* positions (from 0) of the layers the loop raises on
Rejected(ls) == {j \in 0..(Len(ls) - 1) : LacksHtml(ls[j + 1])}
FirstOf(S) == CHOOSE j \in S : \A k \in S : j <= k

\* scenes = result.get("scenes") is not a list
ScenesMissing ==
    /\ pc = "validate"
    /\ "scenes" \notin DOMAIN result
    /\ value_error' = [message |-> <<"Campo 'scenes' deve ser uma lista">>]
    /\ pc' = "rejected"
    /\ UNCHANGED <<animVars, styleVars, pathVars, strokeVars, sceneVars,
                   browserVars, result, scene_i, original, contextVars, cropVars>>

\* one turn of the loop over the scenes: the scene is truncated to 15
\* layers, then the loop over its layers, which runs over the list as it was
\* before the truncation, checks html and fills in z_index and id; the
\* layers are the same dicts in both lists
ValidateScene ==
    /\ pc = "validate"
    /\ "scenes" \in DOMAIN result
    /\ scene_i < Len(result.scenes)
    /\ LET scene == result.scenes[scene_i + 1]
       IN  IF "layers" \notin DOMAIN scene
           THEN /\ value_error' =
                      [message |-> <<"Scene ">> \o DigitNames(Digits(scene_i))]
                /\ pc' = "rejected"
                /\ UNCHANGED <<result, scene_i>>
           ELSE LET ls == scene.layers
                    bad == Rejected(ls)
                    upto == IF bad = {} THEN Len(ls) ELSE FirstOf(bad)
                    kept == Truncated(FilledUpTo(ls, scene_i, upto))
                IN  /\ result' = [result EXCEPT
                                    !.scenes[scene_i + 1].layers = kept]
                    /\ IF bad = {}
                       THEN /\ scene_i' = scene_i + 1
                            /\ UNCHANGED <<pc, value_error>>
                       ELSE /\ value_error' =
                                  [message |->
                                     <<"Scene ">> \o DigitNames(Digits(scene_i))
                                       \o <<", Layer ">>
                                       \o DigitNames(Digits(upto))]
                            /\ pc' = "rejected"
                            /\ UNCHANGED scene_i
    /\ UNCHANGED <<animVars, styleVars, pathVars, strokeVars, sceneVars,
                   browserVars, original, contextVars, cropVars>>

\* the loop over the scenes is exhausted: the result is accepted
AcceptResult ==
    /\ pc = "validate"
    /\ "scenes" \in DOMAIN result
    /\ scene_i >= Len(result.scenes)
    /\ pc' = "accepted"
    /\ UNCHANGED <<animVars, styleVars, pathVars, strokeVars, sceneVars,
                   browserVars, directorVars, contextVars, cropVars>>

-----------------------------------------------------------------------------
(* ContextBuilder._calculate_occupied_areas *)

\* the area appended for a group whose layout is not empty
Area(layout) ==
    LET cx == Get(layout, "center_x", 0)
        cy == Get(layout, "center_y", 0)
        w == Get(layout, "group_width", 0)
        h == Get(layout, "group_height", 0)
    IN  [center |-> [x |-> cx, y |-> cy],
         dimensions |-> [width |-> w, height |-> h],
         bounding_box |->
            [left |-> RSub(RInt(cx), Rat(w, 2)),
             right |-> RAdd(RInt(cx), Rat(w, 2)),
             top |-> RSub(RInt(cy), Rat(h, 2)),
             bottom |-> RAdd(RInt(cy), Rat(h, 2))]]

RECURSIVE OccupiedAreas(_)
\* the loop over the groups: a group without layout, or with an empty one,
\* adds nothing
OccupiedAreas(groups) ==
    IF groups = <<>> THEN <<>>
    ELSE LET layout == Get(Head(groups), "layout", NoDict)
         IN  (IF layout # NoDict THEN <<Area(layout)>> ELSE <<>>)
                \o OccupiedAreas(Tail(groups))

CalculateOccupiedAreas ==
    /\ pc = "areas"
    /\ areas' = OccupiedAreas(text_layout)
    /\ pc' = "areas_done"
    /\ UNCHANGED <<animVars, styleVars, pathVars, strokeVars, sceneVars,
                   browserVars, directorVars, text_layout, raw_context,
                   context, cropVars>>

-----------------------------------------------------------------------------
(* render_layer_to_png: the capture, cropped to the content or not *)

\* padding = 4
Padding == 4

\* bbox and bbox["width"] > 0 and bbox["height"] > 0
HasContent(box) == box # NoneDict /\ box.width > 0 /\ box.height > 0

\* the clip of the cropped capture
ContentClip(box) ==
    [x |-> Max(0, box.x - Padding),
     y |-> Max(0, box.y - Padding),
     width |-> Min(box.width + Padding * 2,
                   canvas_width - Max(0, box.x - Padding)),
     height |-> Min(box.height + Padding * 2,
                    canvas_height - Max(0, box.y - Padding))]

\* the clip of the full canvas screenshot
CanvasClip == [x |-> 0, y |-> 0, width |-> canvas_width, height |-> canvas_height]

\* what the rasterizer can report for document.body.firstElementChild:
\* null without an element, else the rect of the element, which the page
\* may place anywhere, rounded outwards to integers
BBoxInputs ==
    [x : {-100, -4, 0, 3, 700, 724, 800}, y : {-50, 0, 1270, 1284, 1300},
     width : {0, 1, 50, 800}, height : {0, 10, 2000}]
    \cup {NoneDict}

\* page.evaluate(...) returns the bounding box of the content
EvaluateBBox ==
    /\ pc = "content"
    /\ crop_to_content
    /\ bbox' \in BBoxInputs
    /\ pc' = "measured"
    /\ UNCHANGED <<animVars, styleVars, pathVars, strokeVars, sceneVars,
                   browserVars, directorVars, contextVars, crop_to_content,
                   clip, capture>>

\* there is content: the clip is computed and page.screenshot awaited
ClipToContent ==
    /\ pc = "measured"
    /\ HasContent(bbox)
    /\ clip' = ContentClip(bbox)
    /\ pc' = "capture"
    /\ UNCHANGED <<animVars, styleVars, pathVars, strokeVars, sceneVars,
                   browserVars, directorVars, contextVars, crop_to_content,
                   bbox, capture>>

\* the rasterizer returns the clipped screenshot: the result reports the
\* clip and the centre of the content
CroppedCapture ==
    /\ pc = "capture"
    /\ capture' =
          [width |-> clip.width, height |-> clip.height,
           position |-> [x |-> clip.x, y |-> clip.y],
           anchor_point |-> [x |-> RAdd(RInt(bbox.x), Rat(bbox.width, 2)),
                             y |-> RAdd(RInt(bbox.y), Rat(bbox.height, 2))]]
    /\ pc' = "captured"
    /\ UNCHANGED <<animVars, styleVars, pathVars, strokeVars, sceneVars,
                   browserVars, directorVars, contextVars, crop_to_content,
                   bbox, clip>>

\* the rasterizer refuses a clip that has no area: the exception leaves
\* render_layer_to_png, whose try has a finally only
CaptureRefused ==
    /\ pc = "capture"
    /\ clip.width <= 0 \/ clip.height <= 0
    /\ error' = [message |-> <<"Clipped area is either empty or outside the resulting image">>]
    /\ pc' = "raised"
    /\ UNCHANGED <<animVars, styleVars, pathVars, strokeVars, layer, layers,
                   layer_idx, render_animations, rendered, rendered_layers,
                   stroke_reveals, origin, warnings, calls, scene_result,
                   http_response, browserVars, directorVars, contextVars,
                   cropVars>>

\* no crop is asked for, or there is no content: full canvas screenshot
FullCapture ==
    /\ \/ pc = "content" /\ ~crop_to_content
       \/ pc = "measured" /\ ~HasContent(bbox)
    /\ clip' = CanvasClip
    /\ capture' =
          [width |-> canvas_width, height |-> canvas_height,
           position |-> [x |-> 0, y |-> 0],
           anchor_point |-> [x |-> Rat(canvas_width, 2),
                             y |-> Rat(canvas_height, 2)]]
    /\ pc' = "captured"
    /\ UNCHANGED <<animVars, styleVars, pathVars, strokeVars, sceneVars,
                   browserVars, directorVars, contextVars, crop_to_content,
                   bbox>>

-----------------------------------------------------------------------------
(* ContextBuilder.build_motion_graphics_context *)

\* w.get('start_time', w.get('start', 0)), and the same for the end
StartOf(w) == Get(w, "start_time", Get(w, "start", Zero))
EndOf(w) == Get(w, "end_time", Get(w, "end", Zero))

\* [... for w in words if w.get('emphasis', False)]
EmphasisOf(w) == [word |-> w.word, start |-> StartOf(w), end |-> EndOf(w)]
RECURSIVE EmphasisWords(_)
EmphasisWords(words) ==
    IF words = <<>> THEN <<>>
    ELSE (IF Get(Head(words), "emphasis", FALSE)
            THEN <<EmphasisOf(Head(words))>> ELSE <<>>)
            \o EmphasisWords(Tail(words))

\* str.lower() on the words that occur
Lower(str) ==
    CASE str = "Bem-vindo" -> "bem-vindo"
      [] str = "Tutorial" -> "tutorial"
      [] str = "Passo" -> "passo"
      [] OTHER -> str

\* a word of a group is a str, kept as [str |-> ...], or a dict
IsStr(word_data) == "str" \in DOMAIN word_data

\* next((w for w in words if w.get('word', '').lower() == word_text.lower()),
\* None): the position of the first match, 0 for None
Timing(words, word_text) ==
    LET hits == {k \in 1..Len(words) :
                    Lower(Get(words[k], "word", "")) = Lower(word_text)}
    IN  IF hits = {} THEN 0 ELSE CHOOSE k \in hits : \A h \in hits : k <= h

\* what _map_words_to_positions appends for one word of a group
Mapped(words, word_data, group_position) ==
    LET word_text == IF IsStr(word_data) THEN word_data.str
                     ELSE Get(word_data, "text", "")
        position == IF IsStr(word_data) THEN group_position
                    ELSE Get(word_data, "canvas_position", group_position)
        dimensions == IF IsStr(word_data) THEN NoDict
                      ELSE Get(word_data, "dimensions", NoDict)
        k == Timing(words, word_text)
    IN  IF k = 0 THEN <<>>
        ELSE <<[word |-> word_text, position |-> position,
                dimensions |-> dimensions, start |-> StartOf(words[k]),
                end |-> EndOf(words[k]),
                emphasis |-> Get(words[k], "emphasis", FALSE)]>>

RECURSIVE MappedGroup(_, _, _)
MappedGroup(words, group_words, group_position) ==
    IF group_words = <<>> THEN <<>>
    ELSE Mapped(words, Head(group_words), group_position)
            \o MappedGroup(words, Tail(group_words), group_position)

RECURSIVE _map_words_to_positions(_, _)
_map_words_to_positions(words, groups) ==
    IF groups = <<>> THEN <<>>
    ELSE MappedGroup(words, Get(Head(groups), "words", <<>>),
                     Get(Head(groups), "position", NoDict))
            \o _map_words_to_positions(words, Tail(groups))

\* o['y'] - o['height']/2 of the groups that have a layout
OccupiedTops(groups) ==
    {RSub(RInt(Get(groups[k].layout, "center_y", 0)),
          Rat(Get(groups[k].layout, "group_height", 0), 2)) :
        k \in {j \in 1..Len(groups) :
                  Get(groups[j], "layout", NoDict) # NoDict}}

\* _identify_empty_spaces: the region above the topmost text, when that
\* text starts below y = 100
_identify_empty_spaces(groups, canvas) ==
    LET tops == OccupiedTops(groups)
        min_y == CHOOSE y \in tops : \A z \in tops : RLe(y, z)
    IN  IF tops # {} /\ RLt(RInt(100), min_y)
        THEN <<[region |-> "top",
                x_range |-> <<RInt(0), RInt(canvas.width)>>,
                y_range |-> <<RInt(0), RSub(min_y, RInt(50))>>,
                suitable_for |-> <<"arrow_pointing", "icon">>]>>
        ELSE <<>>

\* _calculate_safe_zones: three generic zones, whatever the layout
_calculate_safe_zones ==
    <<[zone |-> "above_text", description |-> "Acima do texto principal",
       suitable_for |-> <<"arrow_pointing", "icon">>],
      [zone |-> "around_word", description |-> "Ao redor de palavra específica",
       suitable_for |-> <<"oval_highlight", "circle_attention">>],
      [zone |-> "below_word", description |-> "Embaixo de palavra",
       suitable_for |-> <<"underline">>]>>

\* words_with_positions[:20]
PositionsCap == 20
DefaultCanvas == [width |-> 1080, height |-> 1920]

\* the context build_motion_graphics_context returns for raw
MotionGraphicsContext(raw) ==
    LET transcription == Get(raw, "transcription", "")
        words == Get(raw, "words", <<>>)
        groups == Get(raw, "text_layout", <<>>)
        canvas == Get(raw, "canvas", DefaultCanvas)
        duration == Get(raw, "duration", Zero)
        style == Get(raw, "style", "modern")
        words_with_positions == _map_words_to_positions(words, groups)
    IN  [video |-> [transcription |-> transcription, duration |-> duration,
                    style |-> style, canvas |-> canvas],
         words |-> [total |-> Len(words), emphasis |-> EmphasisWords(words),
                    with_positions |->
                        SubSeq(words_with_positions, 1,
                               Min(Len(words_with_positions), PositionsCap))],
         text_layout |-> [sentences |-> groups, total_groups |-> Len(groups),
                          occupied_areas |-> OccupiedAreas(groups)],
         available_space |->
            [empty_regions |-> _identify_empty_spaces(groups, canvas),
             safe_zones |-> _calculate_safe_zones],
         constraints |-> [max_motion_graphics |-> 5,
                          min_spacing_between_mgs |-> One,
                          anticipation_time |-> Rat(1, 5)]]

BuildMotionGraphicsContext ==
    /\ pc = "build"
    /\ context' = MotionGraphicsContext(raw_context)
    /\ pc' = "built"
    /\ UNCHANGED <<animVars, styleVars, pathVars, strokeVars, sceneVars,
                   browserVars, directorVars, text_layout, areas,
                   raw_context, cropVars>>

-----------------------------------------------------------------------------
(* Inputs *)

MaxDurationSteps == 5
MaxDelaySteps == 2
MaxPlanSteps == 120
EaseSteps == 10

Effects == {"fade_in", "scale_up", "scale_down", "slide_up", "slide_down",
            "slide_left", "slide_right", "bounce_in", "fade_out", "scale_out"}
Easings == {"linear", "ease-in", "ease-out", "ease-in-out", "ease-out-cubic",
            "ease-out-back"}
\* the names the renderer knows, the underscore spellings, and a stranger
EffectInputs == Effects \cup {"zoom_spin"}
EasingInputs == Easings \cup {"ease_in"}
UnderscoreEasings == {"ease_in", "ease_out", "ease_in_out", "ease_out_cubic",
                      "ease_out_back"}
StyleEasingInputs == Easings \cup UnderscoreEasings \cup {"spring"}
FpsInputs == {25, 30}

NoStyle == Style(0, "unset", 0, FALSE)

AnimationInputs ==
    [effect : EffectInputs, easing : EasingInputs,
     duration_ms : {40 * i : i \in 0..MaxDurationSteps},
     delay_ms : {50 * i : i \in 0..MaxDelaySteps}]
    \cup {NoDict, [effect |-> "slide_up"], [duration_ms |-> 120, delay_ms |-> 40]}

IdlePlan ==
    /\ delay_frames = 0
    /\ anim_frames = 0
    /\ hold_frames = 0
    /\ total_frames = 0
    /\ frame_idx = 0
    /\ css = NoStyle
    /\ frames = <<>>
IdleStyle ==
    /\ ease_t = Zero
    /\ eased = Zero
    /\ frame_css = NoStyle
IdlePath ==
    /\ svg_path = <<>>
    /\ num_points = 0
    /\ canvas_width = 720
    /\ canvas_height = 1280
    /\ points = <<>>

NoOrigin == [layers |-> <<>>, stroke_reveals |-> <<>>]

IdleStroke ==
    /\ reveal_config = NoDict
    /\ frame = 0
    /\ progress = Zero
    /\ reveal_count = 0
    /\ visible_points = <<>>
    /\ masks = <<>>
    /\ stroke_result = NoDict
IdleScene ==
    /\ layer = NoDict
    /\ layers = <<>>
    /\ layer_idx = 0
    /\ render_animations = FALSE
    /\ rendered = NoDict
    /\ rendered_layers = <<>>
    /\ stroke_reveals = <<>>
    /\ origin = NoOrigin
    /\ warnings = <<>>
    /\ calls = <<>>
    /\ error = NoDict
    /\ scene_result = NoDict
    /\ http_response = NoDict
IdleBrowser ==
    /\ _playwright = None
    /\ _browser = None
    /\ drivers = {}
    /\ browsers = {}
    /\ starts = 0
    /\ launches = 0
    /\ task = [c \in Callers |-> NoTask]
IdleDirector ==
    /\ result = NoDict
    /\ scene_i = 0
    /\ original = NoDict
    /\ value_error = NoDict
IdleContext ==
    /\ text_layout = <<>>
    /\ areas = <<>>
    /\ raw_context = NoDict
    /\ context = NoDict
IdleCrop ==
    /\ crop_to_content = FALSE
    /\ bbox = NoneDict
    /\ clip = NoDict
    /\ capture = NoDict
IdleOther ==
    /\ IdleStroke /\ IdleScene /\ IdleBrowser /\ IdleDirector /\ IdleContext
    /\ IdleCrop

\* One render_animated_layer call, from render_scene_layers
Init ==
    /\ pc = "plan"
    /\ animation \in AnimationInputs
    /\ fps \in FpsInputs
    /\ out_dir \in BOOLEAN
    /\ IdlePlan
    /\ IdleStyle
    /\ IdlePath
    /\ IdleOther

Next == PlanFrames \/ ApplyStyle \/ Screenshot \/ ReturnFrames \/ StoreFrames

Spec == Init /\ [][Next]_vars

\* The frame plan alone, over a wide range of timings
InitPlan ==
    /\ pc = "plan"
    /\ animation \in [duration_ms : {10 * i : i \in 0..MaxPlanSteps},
                      delay_ms : {10 * i : i \in 0..MaxPlanSteps}]
    /\ fps \in {24, 25, 30, 50, 60}
    /\ out_dir = FALSE
    /\ IdlePlan
    /\ IdleStyle
    /\ IdlePath
    /\ IdleOther

SpecPlan == InitPlan /\ [][PlanFrames]_vars

\* _ease and _get_frame_css called directly
InitStyle ==
    /\ pc = "ease"
    /\ animation \in [effect : EffectInputs, easing : StyleEasingInputs]
    /\ ease_t \in {Rat(k, EaseSteps) : k \in -2..(EaseSteps + 2)}
    /\ eased = Zero
    /\ frame_css = NoStyle
    /\ fps = 30
    /\ out_dir = FALSE
    /\ IdlePlan
    /\ IdlePath
    /\ IdleOther

NextStyle == CallEase \/ CallGetFrameCss

SpecStyle == InitStyle /\ [][NextStyle]_vars

\* _extract_path_points on the paths spelled from a few lexemes
MaxPathLexemes == 4
MaxNumPoints == 4

Lexemes == { <<"M">>, <<" ", "L">>, <<"0", ",", "0">>,
             <<"1", "0", "0", ",", "0">>, <<"-", "5", ",", ".", "5">>, <<"7">> }

RECURSIVE Flatten(_)
Flatten(ls) == IF ls = <<>> THEN <<>> ELSE Head(ls) \o Flatten(Tail(ls))

PathInputs ==
    {Flatten(ls) : ls \in UNION {[1..n -> Lexemes] : n \in 0..MaxPathLexemes}}

CanvasInputs == {<<720, 1280>>, <<1080, 1920>>}

InitPath ==
    /\ pc = "sample"
    /\ svg_path \in PathInputs
    /\ num_points \in 1..MaxNumPoints
    /\ \E c \in CanvasInputs : canvas_width = c[1] /\ canvas_height = c[2]
    /\ points = <<>>
    /\ animation = NoDict
    /\ fps = 30
    /\ out_dir = FALSE
    /\ IdlePlan
    /\ IdleStyle
    /\ IdleOther

SpecPath == InitPath /\ [][ExtractPathPoints]_vars

\* _generate_path_mask_html called directly, at progress k / 2^ProgressBits
ProgressBits == 3

MaskPathInputs == {path \in PathInputs : Len(path) <= 8}
ProgressInputs == {Rat(k, Pow(2, ProgressBits)) : k \in 0..Pow(2, ProgressBits)}

InitMask ==
    /\ pc = "mask"
    /\ svg_path \in MaskPathInputs
    /\ num_points \in 1..MaxNumPoints
    /\ progress \in ProgressInputs
    /\ canvas_width = 720
    /\ canvas_height = 1280
    /\ points = <<>>
    /\ animation = NoDict
    /\ fps = 30
    /\ out_dir = FALSE
    /\ IdlePlan
    /\ IdleStyle
    /\ reveal_config = NoDict
    /\ frame = 0
    /\ reveal_count = 0
    /\ visible_points = <<>>
    /\ masks = <<>>
    /\ stroke_result = NoDict
    /\ IdleScene /\ IdleBrowser /\ IdleDirector /\ IdleContext /\ IdleCrop

SpecMask == InitMask /\ [][GeneratePathMaskHtml]_vars

\* One _render_stroke_reveal call
MaxStrokeSteps == 20

StrokePaths == { <<>>, <<"M", "0", ",", "0", " ", "L", "9", "0", ",", "0">>,
                 <<"M", "0", " ", "0", "L", "3", " ", "4", "L", "3", " ", "8">> }
RevealInputs ==
    {[duration_ms |-> 10 * i] : i \in 0..MaxStrokeSteps} \cup {NoDict}
StrokeLayerInputs ==
    {[type |-> "stroke_reveal", id |-> <<"s1">>, svg_path |-> path, reveal |-> r] :
        path \in StrokePaths, r \in RevealInputs}
    \cup {[type |-> "stroke_reveal", svg_path |-> path] : path \in StrokePaths}
    \cup {[type |-> "stroke_reveal", reveal |-> r] : r \in RevealInputs}

InitStroke ==
    /\ pc = "stroke"
    /\ layer \in StrokeLayerInputs
    /\ fps \in {24, 25, 30}
    /\ out_dir \in BOOLEAN
    /\ animation = NoDict
    /\ IdlePlan
    /\ IdleStyle
    /\ IdlePath
    /\ IdleStroke
    /\ layers = <<>>
    /\ layer_idx = 0
    /\ render_animations = FALSE
    /\ rendered = NoDict
    /\ rendered_layers = <<>>
    /\ stroke_reveals = <<>>
    /\ origin = NoOrigin
    /\ warnings = <<>>
    /\ calls = <<>>
    /\ error = NoDict
    /\ scene_result = NoDict
    /\ http_response = NoDict
    /\ IdleBrowser /\ IdleDirector /\ IdleContext /\ IdleCrop

NextStroke == StrokePlan \/ MaskFrame \/ StrokeReturn

SpecStroke == InitStroke /\ [][NextStroke]_vars

\* Lifecycle calls made one after the other: a call starts when no other
\* is in flight
InitLifecycle ==
    /\ pc = "lifecycle"
    /\ animation = NoDict
    /\ fps = 30
    /\ out_dir = FALSE
    /\ IdlePlan
    /\ IdleStyle
    /\ IdlePath
    /\ IdleOther

NextLifecycle ==
    \E c \in Callers :
        \/ NoCallInFlight /\ CallGetBrowser(c)
        \/ NoCallInFlight /\ CallShutdownBrowser(c)
        \/ PlaywrightStarted(c)
        \/ BrowserLaunched(c)
        \/ BrowserClosed(c)
        \/ PlaywrightStopped(c)

SpecLifecycle == InitLifecycle /\ [][NextLifecycle]_vars

\* Render calls that overlap: every render function begins with
\* `browser = await _get_browser()`, and a coroutine that awaits lets the
\* others run
NextConcurrent ==
    \E c \in Callers :
        \/ CallGetBrowser(c)
        \/ PlaywrightStarted(c)
        \/ BrowserLaunched(c)

SpecConcurrent == InitLifecycle /\ [][NextConcurrent]_vars

\* One _validate_result call.  A scene is n plain layers, with at most one
\* layer that brings its own id and z_index and at most one that has no html
MaxDirectorLayers == 17

PlainLayer == [type |-> "html", html |-> "<div>"]
OwnLayer == [id |-> <<"logo">>, type |-> "html", html |-> "<img>", z_index |-> 7]
HtmlLessLayers == {[type |-> "shape"], [id |-> <<"s1">>, type |-> "stroke_reveal"],
                   [id |-> <<"bare">>]}
DirectorLayers(n, own, other, l) ==
    [j \in 1..n |-> IF j = other THEN l
                    ELSE IF j = own THEN OwnLayer ELSE PlainLayer]
DirectorScenes(max) ==
    {[layers |-> DirectorLayers(n, own, other, l)] :
        n \in 0..max, own \in 0..max, other \in 0..max, l \in HtmlLessLayers}
ResultInputs ==
    {[scenes |-> <<sc>>] : sc \in DirectorScenes(MaxDirectorLayers)}
    \cup {[scenes |-> <<sc1, sc2>>] :
             sc1 \in DirectorScenes(1), sc2 \in DirectorScenes(2)}
    \cup {NoDict, [scenes |-> <<>>],
          [scenes |-> <<[scene_id |-> "scene_01"]>>]}

InitDirector ==
    /\ pc = "validate"
    /\ result \in ResultInputs
    /\ original = result
    /\ scene_i = 0
    /\ value_error = NoDict
    /\ animation = NoDict
    /\ fps = 30
    /\ out_dir = FALSE
    /\ IdlePlan
    /\ IdleStyle
    /\ IdlePath
    /\ IdleStroke /\ IdleScene /\ IdleBrowser /\ IdleContext /\ IdleCrop

NextDirector == ScenesMissing \/ ValidateScene \/ AcceptResult

SpecDirector == InitDirector /\ [][NextDirector]_vars

\* One _calculate_occupied_areas call
MaxGroups == 3

GroupInputs ==
    { [id |-> "sentence_001",
       position |-> [x |-> 100, y |-> 200, width |-> 880, height |-> 100],
       words |-> <<[str |-> "Bem-vindo"], [str |-> "ao"], [str |-> "Tutorial"]>>],
      [id |-> "sentence_002",
       layout |-> [center_x |-> 540, center_y |-> 1500, group_width |-> 881,
                   group_height |-> 120]],
      [layout |-> [center_x |-> 360, group_width |-> 600],
       words |-> <<[text |-> "Passo", canvas_position |-> [x |-> 60, y |-> 0]]>>],
      [id |-> "sentence_003", layout |-> NoDict],
      NoDict }
TextLayoutInputs == UNION {[1..n -> GroupInputs] : n \in 0..MaxGroups}

InitContext ==
    /\ pc = "areas"
    /\ text_layout \in TextLayoutInputs
    /\ areas = <<>>
    /\ animation = NoDict
    /\ fps = 30
    /\ out_dir = FALSE
    /\ IdlePlan
    /\ IdleStyle
    /\ IdlePath
    /\ IdleStroke /\ IdleScene /\ IdleBrowser /\ IdleDirector /\ IdleCrop
    /\ raw_context = NoDict
    /\ context = NoDict

SpecContext == InitContext /\ [][CalculateOccupiedAreas]_vars

\* One render_layer_to_png call
InitCrop ==
    /\ pc = "content"
    /\ crop_to_content \in BOOLEAN
    /\ bbox = NoneDict
    /\ clip = NoDict
    /\ capture = NoDict
    /\ animation = NoDict
    /\ fps = 30
    /\ out_dir = FALSE
    /\ IdlePlan
    /\ IdleStyle
    /\ svg_path = <<>>
    /\ num_points = 0
    /\ \E size \in CanvasInputs :
          canvas_width = size[1] /\ canvas_height = size[2]
    /\ points = <<>>
    /\ IdleStroke /\ IdleScene /\ IdleBrowser /\ IdleDirector /\ IdleContext

NextCrop ==
    \/ EvaluateBBox \/ ClipToContent \/ CroppedCapture \/ CaptureRefused
    \/ FullCapture

SpecCrop == InitCrop /\ [][NextCrop]_vars

\* One build_motion_graphics_context call
MaxWords == 2

WordInputs ==
    { [word |-> "Bem-vindo", start_time |-> Zero, end_time |-> Rat(1, 2)],
      [word |-> "tutorial", start_time |-> Rat(3, 5), end_time |-> One,
       emphasis |-> TRUE],
      [word |-> "Passo", start |-> Rat(3, 2), end |-> Rat(9, 5),
       emphasis |-> TRUE],
      [word |-> "simples", emphasis |-> FALSE] }
WordsInputs == UNION {[1..n -> WordInputs] : n \in 0..MaxWords}

RawContextInputs ==
    [transcription : {"", "Bem-vindo ao tutorial."}, words : WordsInputs,
     text_layout : TextLayoutInputs, canvas : {DefaultCanvas},
     duration : {RInt(5)}, style : {"tutorial"}]
    \cup [transcription : {""}, words : WordsInputs,
          text_layout : {<<>>}, canvas : {[width |-> 720, height |-> 1280]},
          duration : {Zero}]
    \cup {NoDict}

InitBuild ==
    /\ pc = "build"
    /\ raw_context \in RawContextInputs
    /\ context = NoDict
    /\ text_layout = <<>>
    /\ areas = <<>>
    /\ animation = NoDict
    /\ fps = 30
    /\ out_dir = FALSE
    /\ IdlePlan
    /\ IdleStyle
    /\ IdlePath
    /\ IdleStroke /\ IdleScene /\ IdleBrowser /\ IdleDirector /\ IdleCrop

SpecBuild == InitBuild /\ [][BuildMotionGraphicsContext]_vars

\* One render_scene_layers call, direct or from api_render_scene (which
\* passes neither render_animations nor fps)
MaxSceneLayers == 3

ShortFade == [effect |-> "fade_in", duration_ms |-> 40]
DelayedSlide == [effect |-> "slide_up", duration_ms |-> 80, delay_ms |-> 40]
ShortPath == <<"M", "0", ",", "0", " ", "L", "9", "0", ",", "0">>

LayerInputs ==
    { [id |-> <<"bg">>, type |-> "html", html |-> "<div>", z_index |-> 10],
      [id |-> <<"title">>, type |-> "text", html |-> "<h1>", z_index |-> 300,
       animation |-> ShortFade, is_static |-> FALSE],
      [type |-> "text", html |-> "<h2>", animation |-> DelayedSlide],
      [html |-> "<u>", animation |-> ShortFade, is_static |-> FALSE],
      [id |-> <<"held">>, html |-> "<b>", animation |-> ShortFade,
       is_static |-> TRUE],
      [id |-> <<"glow">>, html |-> "<i>", animation |-> NoDict,
       is_static |-> FALSE],
      [id |-> <<"empty">>, type |-> "html", html |-> ""],
      [type |-> "shape"],
      [type |-> "stroke_reveal", svg_path |-> ShortPath,
       reveal |-> [duration_ms |-> 80]] }

SceneInputs == UNION {[1..n -> LayerInputs] : n \in 0..MaxSceneLayers}

InitScene ==
    /\ pc = "scene"
    /\ layers \in SceneInputs
    /\ layer_idx = 1
    /\ out_dir \in BOOLEAN
    /\ \/ http_response = NoDict /\ render_animations \in BOOLEAN
       \/ http_response = Pending /\ render_animations = FALSE
    /\ fps = 30
    /\ animation = NoDict
    /\ layer = NoDict
    /\ rendered = NoDict
    /\ rendered_layers = <<>>
    /\ stroke_reveals = <<>>
    /\ origin = NoOrigin
    /\ warnings = <<>>
    /\ calls = <<>>
    /\ error = NoDict
    /\ scene_result = NoDict
    /\ IdlePlan
    /\ IdleStyle
    /\ IdlePath
    /\ IdleStroke
    /\ IdleBrowser /\ IdleDirector /\ IdleContext /\ IdleCrop

NextScene ==
    \/ TakeStrokeLayer \/ SkipLayer \/ TakeHtmlLayer \/ RenderLayerToPng
    \/ PlanFrames \/ ApplyStyle \/ Screenshot \/ ReturnFrames \/ StoreFrames
    \/ AttachSequence
    \/ StrokePlan \/ MaskFrame \/ StrokeReturn \/ CollectStroke
    \/ ReturnScene \/ RasterizerFails
    \/ ApiRenderSceneReturns \/ ApiRenderSceneRaises

SpecScene == InitScene /\ [][NextScene]_vars

-----------------------------------------------------------------------------
(* Properties *)

Planned == pc \in {"loop", "shot", "store", "done"}
Called == pc \in {"css", "styled"}
TheEffect == Get(animation, "effect", "fade_in")
TheEasing == Get(animation, "easing", "ease-out")
DelayMs == Get(animation, "delay_ms", 0)
DurationMs == Get(animation, "duration_ms", 500)

RAbs(a) == <<Abs(a[1]), a[2]>>
\* v, in units of 10^-digits, is a nearest such value to x
Nearest(v, x, digits) ==
    RLe(RAbs(RSub(RInt(v), RMul(x, RInt(Pow(10, digits))))), Rat(1, 2))

\* C1: once the frame plan is computed, delay_frames + anim_frames +
\* hold_frames equals total_frames, hold_frames is exactly 2 and anim_frames
\* is at least 1.
C1_FramePlanAddsUp ==
    Planned =>
        /\ delay_frames + anim_frames + hold_frames = total_frames
        /\ hold_frames = 2
        /\ anim_frames >= 1

\* the plan of duration_ms=500, delay_ms=0 at 30 fps: 0 + 15 + 2 = 17
C1_Witness ==
    /\ Planned
    /\ DurationMs = 500 /\ DelayMs = 0 /\ fps = 30
    /\ delay_frames = 0 /\ anim_frames = 15 /\ total_frames = 17

\* the integers nearest to n / d (both neighbours at a tie)
NearestInts(n, d) ==
    {k \in {n \div d, n \div d + 1} : 2 * Abs(k * d - n) <= d}

\* C2 as stated: the frame plan rounds to nearest, delay_frames ==
\* round(delay_ms/1000 * fps) and anim_frames == max(1, round(duration_ms/1000
\* * fps)).
C2_RoundsToNearest ==
    Planned =>
        /\ delay_frames \in NearestInts(DelayMs * fps, 1000)
        /\ \E r \in NearestInts(DurationMs * fps, 1000) : anim_frames = Max(1, r)

\* what truncation of the binary64 product (ms / 1000) * fps can give:
\* floor(ms * fps / 1000), or one less where ms * fps is a positive multiple
\* of 1000
Truncations(ms) ==
    LET n == ms * fps
    IN  {n \div 1000} \cup (IF n > 0 /\ n % 1000 = 0 THEN {n \div 1000 - 1} ELSE {})

\* C2, amended: the frame plan truncates toward zero, delay_frames ==
\* int(delay_ms/1000 * fps) and anim_frames == max(1, int(duration_ms/1000 *
\* fps)); the truncated value is floor(ms * fps / 1000), except that it can
\* be one less where ms * fps is a positive multiple of 1000.
C2_TruncatesTowardZero ==
    Planned =>
        /\ delay_frames \in Truncations(DelayMs)
        /\ \E v \in Truncations(DurationMs) : anim_frames = Max(1, v)
        /\ (DelayMs * fps) % 1000 # 0 => delay_frames = (DelayMs * fps) \div 1000

\* 1160 ms at 25 fps is 29 frames exactly, and the plan has 28; 70 ms at
\* 25 fps is 1.75 frames, and the plan has 1
C2_Witness ==
    /\ Planned
    /\ DelayMs = 1160 /\ fps = 25 /\ delay_frames = 28
    /\ DurationMs = 70 /\ anim_frames = 1

\* C3: every frame carries the style of exactly one phase: before
\* delay_frames fully transparent with no transform; in the animation phase
\* the effect at ease(t, easing) with t = (f - delay_frames) /
\* max(anim_frames - 1, 1); from delay_frames + anim_frames on the effect at
\* progress 1.0, the same style in every hold frame.
C3_FramePhases ==
    (pc \in {"loop", "shot", "store"} \/ (pc = "done" /\ ~out_dir)) =>
        \A i \in 1..Len(frames) :
            LET f == frames[i].frame
                st == frames[i].png
            IN  /\ f < delay_frames =>
                    st.opacity = 0 /\ st.transform = "none"
                /\ (delay_frames <= f /\ f < delay_frames + anim_frames) =>
                    st \in _get_frame_css(TheEffect,
                              _ease(Rat(f - delay_frames, Max(anim_frames - 1, 1)),
                                    TheEasing))
                /\ f >= delay_frames + anim_frames =>
                    /\ st \in _get_frame_css(TheEffect, One)
                    /\ \A j \in 1..Len(frames) :
                          frames[j].frame >= delay_frames + anim_frames
                              => frames[j].png = st

C3_Witness ==
    /\ pc = "done" /\ ~out_dir
    /\ TheEffect = "slide_up" /\ TheEasing = "ease-in-out"
    /\ delay_frames >= 1 /\ anim_frames >= 3
    /\ Len(frames) = total_frames
    /\ frames[delay_frames + 2].png.amount > 0
    /\ frames[total_frames].png = Style(1000, "translateY", 0, FALSE)

\* C4: the frame list has exactly total_frames entries when it is returned,
\* the entry at position i has frame index i (counting from 0), and the list
\* re-keyed to file paths keeps both, one distinct path per frame.
C4_FramesContiguous ==
    /\ \A i \in 1..Len(frames) : frames[i].frame = i - 1
    /\ pc \in {"store", "done"} => Len(frames) = total_frames
    /\ (pc = "done" /\ out_dir) =>
          \A i, j \in 1..Len(frames) :
              i # j => frames[i].png_path # frames[j].png_path

C4_Witness ==
    /\ pc = "done" /\ out_dir
    /\ delay_frames >= 1 /\ anim_frames >= 3
    /\ Len(frames) = total_frames
    /\ frames[total_frames].frame = total_frames - 1

\* t clamped to [0, 1]
ClampedT == IF ease_t[1] < 0 THEN Zero ELSE IF ease_t[1] > ease_t[2] THEN One ELSE ease_t
Sq(x) == RMul(x, x)
Cube(x) == RMul(x, RMul(x, x))
EaseOutOf(t) == RSub(One, Sq(RSub(One, t)))
EaseOutBackOf(t) ==
    RAdd(RAdd(One, RMul(Rat(270158, 100000), Cube(RSub(t, One)))),
         RMul(Rat(170158, 100000), Sq(RSub(t, One))))

\* C5 as stated: ease clamps t and returns the documented formula under each
\* kind name the specification lists: linear, ease_in, ease_out, ease_in_out,
\* ease_out_cubic, ease_out_back.
C5_SpecNames ==
    Called =>
        LET t == ClampedT
        IN  /\ TheEasing = "linear" => eased = t
            /\ TheEasing = "ease_in" => eased = Sq(t)
            /\ TheEasing = "ease_out" => eased = EaseOutOf(t)
            /\ TheEasing = "ease_in_out" =>
                  eased = RSub(RMul(RInt(3), Sq(t)), RMul(RInt(2), Cube(t)))
            /\ TheEasing = "ease_out_cubic" => eased = RSub(One, Cube(RSub(One, t)))
            /\ TheEasing = "ease_out_back" => eased = EaseOutBackOf(t)

\* C5, amended: ease clamps t and returns the documented formula under the
\* hyphenated kind names linear, ease-in, ease-out, ease-in-out,
\* ease-out-cubic, ease-out-back; the underscore spellings are unknown kinds
\* and give the ease-out curve.
C5_HyphenatedNames ==
    Called =>
        LET t == ClampedT
        IN  /\ TheEasing = "linear" => eased = t
            /\ TheEasing = "ease-in" => eased = Sq(t)
            /\ TheEasing = "ease-out" => eased = EaseOutOf(t)
            /\ TheEasing = "ease-in-out" =>
                  eased = RSub(RMul(RInt(3), Sq(t)), RMul(RInt(2), Cube(t)))
            /\ TheEasing = "ease-out-cubic" => eased = RSub(One, Cube(RSub(One, t)))
            /\ TheEasing = "ease-out-back" => eased = EaseOutBackOf(t)
            /\ TheEasing \in UnderscoreEasings => eased = EaseOutOf(t)

\* ease(0.5, "ease_in") is 0.75, the ease-out value, where t^2 is 0.25
C5_Witness ==
    /\ Called
    /\ TheEasing = "ease_in"
    /\ ease_t = Rat(1, 2)
    /\ eased = Rat(3, 4)

\* C6: for t in [0, 1], ease is monotonic non-decreasing in t for linear,
\* ease_in, ease_out, ease_in_out and ease_out_cubic, stays within [0, 1] for
\* every kind but ease_out_back, and ease_out_back never exceeds 1 by more
\* than c1 = 1.70158.
C6_MonotoneAndBounded ==
    (Called /\ RLe(Zero, ease_t) /\ RLe(ease_t, One)) =>
        /\ TheEasing # "ease-out-back" => RLe(Zero, eased) /\ RLe(eased, One)
        /\ TheEasing = "ease-out-back" =>
              RLe(eased, RAdd(One, Rat(170158, 100000)))
        /\ TheEasing # "ease-out-back" =>
              \A k \in 0..EaseSteps :
                  RLe(ease_t, Rat(k, EaseSteps))
                      => RLe(eased, _ease(Rat(k, EaseSteps), TheEasing))

\* ease_out_back overshoots: above 1 at t = 0.7
C6_Witness ==
    /\ Called
    /\ TheEasing = "ease-out-back"
    /\ RLt(Zero, ease_t) /\ RLt(ease_t, One)
    /\ RLt(One, eased)

\* C7: an unknown easing kind gives the value of ease-out for every t, and
\* an unknown effect name gives the style of fade_in for every progress.
C7_UnknownNamesFallBack ==
    /\ (Called /\ TheEasing \notin Easings) => eased = EaseOutOf(ClampedT)
    /\ (pc = "styled" /\ TheEffect \notin Effects) =>
          /\ frame_css.transform = "none"
          /\ Nearest(frame_css.opacity, eased, 3)
          /\ frame_css \in _get_frame_css("fade_in", eased)

C7_Witness ==
    /\ pc = "styled"
    /\ TheEasing = "spring" /\ TheEffect = "zoom_spin"
    /\ ease_t = Rat(1, 2) /\ eased = Rat(3, 4)
    /\ frame_css = Style(750, "none", 0, FALSE)

\* the table of the effect transform mapper: opacity, transform and amount
TableOpacity(e, p) ==
    CASE e \in {"fade_out", "scale_out"} -> RSub(One, p)
      [] e = "bounce_in" -> RMin(RMul(RInt(2), p), One)
      [] OTHER -> p
TableTransform(e) ==
    CASE e \in {"fade_in", "fade_out"} -> "none"
      [] e \in {"slide_up", "slide_down"} -> "translateY"
      [] e \in {"slide_left", "slide_right"} -> "translateX"
      [] OTHER -> "scale"
\* the straight line from value a at p = lo to value b at p = hi
Ramp(p, lo, hi, a, b) == RAdd(a, RMul(RSub(b, a), RDiv(RSub(p, lo), RSub(hi, lo))))
TableAmount(e, p) ==
    CASE e = "scale_up" -> RAdd(Rat(3, 10), RMul(Rat(7, 10), p))
      [] e = "scale_down" -> RSub(Rat(15, 10), RMul(Rat(5, 10), p))
      [] e = "scale_out" -> RAdd(One, RMul(Rat(5, 10), p))
      [] e \in {"slide_up", "slide_left"} -> RMul(RInt(120), RSub(One, p))
      [] e \in {"slide_down", "slide_right"} -> RMul(RInt(-120), RSub(One, p))
      [] e = "bounce_in" ->
            IF RLe(p, Rat(6, 10)) THEN Ramp(p, Zero, Rat(6, 10), Zero, Rat(115, 100))
            ELSE IF RLe(p, Rat(8, 10))
              THEN Ramp(p, Rat(6, 10), Rat(8, 10), Rat(115, 100), Rat(95, 100))
            ELSE Ramp(p, Rat(8, 10), One, Rat(95, 100), One)
      [] OTHER -> Zero

\* C8: for every effect of the table and every progress p in [0, 1] the
\* style carries the tabulated opacity and spatial transform, at the
\* precision the style is written with (opacity and scale to 3 decimals,
\* translation to 0.1 px); fade_in has no spatial transform at any progress
\* and the bounce_in scale at p = 0.6 is exactly 1.15.
C8_EffectTable ==
    pc = "styled" =>
        /\ (TheEffect \in Effects /\ RLe(Zero, eased) /\ RLe(eased, One)) =>
              /\ Nearest(frame_css.opacity, TableOpacity(TheEffect, eased), 3)
              /\ frame_css.transform = TableTransform(TheEffect)
              /\ Nearest(frame_css.amount, TableAmount(TheEffect, eased),
                         IF frame_css.transform = "scale" THEN 3 ELSE 1)
              /\ frame_css.origin = (TableTransform(TheEffect) = "scale")
        /\ TheEffect = "fade_in" => frame_css.transform = "none"
        /\ (TheEffect = "bounce_in" /\ eased = Rat(6, 10)) => frame_css.amount = 1150

C8_Witness ==
    /\ pc = "styled"
    /\ TheEffect = "bounce_in" /\ TheEasing = "linear"
    /\ eased = Rat(6, 10)
    /\ frame_css = Style(1000, "scale", 1150, TRUE)

\* the coordinate pairs of the path
Pairs == RawPoints(Numbers(svg_path))

\* pt lies at parameter t of the polyline through ps, every segment holding
\* an equal share of the parameter
OnPolyline(pt, ps, t) ==
    LET segs == Len(ps) - 1
    IN  \E g \in 0..(segs - 1) :
            LET u == RSub(RMul(t, RInt(segs)), RInt(g))
            IN  /\ RLe(Zero, u) /\ RLe(u, One)
                /\ pt[1] = RAdd(ps[g + 1][1], RMul(RSub(ps[g + 2][1], ps[g + 1][1]), u))
                /\ pt[2] = RAdd(ps[g + 1][2], RMul(RSub(ps[g + 2][2], ps[g + 1][2]), u))

\* C9: for a path with at least 2 coordinate pairs and num_points >= 2 the
\* sampler returns exactly num_points points, sample i at parameter
\* i / (num_points - 1) of the polyline through the pairs; the first sample is
\* the first pair and the last sample is the last pair.
C9_UniformSamples ==
    (pc = "sampled" /\ Len(Pairs) >= 2 /\ num_points >= 2) =>
        /\ Len(points) = num_points
        /\ points[1] = Pairs[1]
        /\ points[num_points] = Pairs[Len(Pairs)]
        /\ \A i \in 0..(num_points - 1) :
              OnPolyline(points[i + 1], Pairs, Rat(i, num_points - 1))

\* "M0,0 L100,0" with 3 points gives (0,0), (50,0), (100,0)
C9_Witness ==
    /\ pc = "sampled"
    /\ svg_path = <<"M", "0", ",", "0", " ", "L", "1", "0", "0", ",", "0">>
    /\ num_points = 3
    /\ points = <<<<Zero, Zero>>, <<RInt(50), Zero>>, <<RInt(100), Zero>>>>

\* C10 as stated: a path with fewer than 2 coordinate pairs yields a
\* horizontal line of num_points points that spans the canvas width (in
\* steps of canvas_width / num_points from the left edge) at y equal to half
\* the canvas height, for every canvas size.
C10_FallbackFollowsCanvas ==
    (pc = "sampled" /\ Len(Numbers(svg_path)) < 4) =>
        /\ Len(points) = num_points
        /\ \A i \in 1..Len(points) :
              /\ points[i][2] = Rat(canvas_height, 2)
              /\ points[i][1] = Rat((i - 1) * canvas_width, num_points)

\* C11: for a non-empty point list and progress in [0,1], the mask shows
\* exactly the first reveal_count points, reveal_count == max(1,
\* floor(progress * len(points))); it is 1 at progress 0, len(points) at
\* progress 1, never above len(points), and non-decreasing in progress.
C11_RevealCount ==
    pc = "masked" =>
        LET n == Len(points)
        IN  /\ n >= 1
            /\ reveal_count = Max(1, (progress[1] * n) \div progress[2])
            /\ visible_points = SubSeq(points, 1, reveal_count)
            /\ Len(visible_points) = reveal_count
            /\ reveal_count <= n
            /\ progress = Zero => reveal_count = 1
            /\ progress = One => reveal_count = n
            /\ \A q \in ProgressInputs :
                  RLe(q, progress) => RevealCount(q, points) <= reveal_count

\* half way along four samples of a two-pair path, two points are visible
C11_Witness ==
    /\ pc = "masked"
    /\ Len(Numbers(svg_path)) >= 4
    /\ Len(points) = 4
    /\ progress = Rat(1, 2)
    /\ reveal_count = 2
    /\ visible_points = <<points[1], points[2]>>

StrokePlanned == pc \in {"masks", "stroke_done"}
StrokeDurationMs == Get(reveal_config, "duration_ms", 1200)
\* the masks made so far are numbered from 0 in order, each at the linear
\* progress of its frame
MasksInOrder ==
    /\ Len(masks) = frame
    /\ \A k \in 1..Len(masks) : masks[k].frame = k - 1
    /\ frame > 0 =>
          progress = (IF total_frames = 1 THEN Zero
                      ELSE Rat(frame - 1, total_frames - 1))
    /\ pc = "stroke_done" => Len(masks) = total_frames

\* C12 as stated: total_frames == round(reveal.duration_ms/1000 * fps), the
\* masks are indexed 0..total_frames-1 in order, and mask k is generated at
\* linear progress k/(total_frames-1), or 0 when total_frames == 1.
C12_RoundedMaskPlan ==
    StrokePlanned =>
        /\ total_frames \in NearestInts(StrokeDurationMs * fps, 1000)
        /\ MasksInOrder

\* C12, amended: total_frames == int(reveal.duration_ms/1000 * fps), the
\* truncation toward zero (floor(ms * fps / 1000), possibly one less where
\* ms * fps is a positive multiple of 1000); the masks are indexed
\* 0..total_frames-1 in order; frame k has linear progress
\* k/(total_frames-1), or 0 when total_frames == 1, and its mask is generated
\* at the cubic ease-out 1 - (1 - progress)^3 of that progress.
C12_TruncatedMaskPlan ==
    StrokePlanned =>
        /\ total_frames \in Truncations(StrokeDurationMs)
        /\ (StrokeDurationMs * fps) % 1000 # 0 =>
              total_frames = (StrokeDurationMs * fps) \div 1000
        /\ MasksInOrder
        /\ frame > 0 =>
              /\ eased = RSub(One, Cube(RSub(One, progress)))
              /\ reveal_count =
                    Max(1, (eased[1] * Len(points)) \div eased[2])

\* 150 ms at 30 fps is 4.5 frames: four masks, not five, the last at
\* progress 1
C12_Witness ==
    /\ pc = "stroke_done"
    /\ StrokeDurationMs = 150 /\ fps = 30
    /\ total_frames = 4
    /\ Len(masks) = 4 /\ masks[4].frame = 3
    /\ progress = One

Returned == pc \in {"returned", "responded"} /\ error = NoDict
IsStroke(l) == Get(l, "type", "unknown") = "stroke_reveal"
HasHtml(l) == Get(l, "html", "") # ""
Positions == [i \in 1..Len(layers) |-> i]
RenderedPosition(i) == ~IsStroke(layers[i]) /\ HasHtml(layers[i])
StrokePosition(i) == IsStroke(layers[i])
DefectPosition(i) == ~IsStroke(layers[i]) /\ ~HasHtml(layers[i])

\* C13: the layers of the Scene Render Result are exactly the input layers
\* that are not stroke_reveal and have non-empty html, in input order, and
\* stroke_reveals exactly the input stroke_reveal layers, in input order; no
\* input layer appears in both lists or twice.
C13_ResultLists ==
    Returned =>
        /\ origin.layers = SelectSeq(Positions, RenderedPosition)
        /\ origin.stroke_reveals = SelectSeq(Positions, StrokePosition)
        /\ Len(scene_result.layers) = Len(origin.layers)
        /\ Len(scene_result.stroke_reveals) = Len(origin.stroke_reveals)
        /\ \A k \in 1..Len(scene_result.layers) :
              LET l == layers[origin.layers[k]]
                  out == scene_result.layers[k]
              IN  /\ out.id = Get(l, "id", <<"unknown">>)
                  /\ out.type = Get(l, "type", "unknown")
                  /\ out.type # "stroke_reveal"
                  /\ out.png = IF out_dir THEN out.id \o <<".png">>
                               ELSE <<"png_base64", l.html>>
        /\ \A k \in 1..Len(scene_result.stroke_reveals) :
              LET l == layers[origin.stroke_reveals[k]]
                  out == scene_result.stroke_reveals[k]
              IN  /\ out.id = Get(l, "id", <<"stroke">>)
                  /\ out.type = "stroke_reveal"

\* a layer, a layer without html and a stroke: one entry in each list
C13_Witness ==
    /\ Returned
    /\ Len(layers) = 3
    /\ origin.layers = <<1>>
    /\ origin.stroke_reveals = <<3>>
    /\ Len(scene_result.layers) = 1
    /\ Len(scene_result.stroke_reveals) = 1

DefectBefore(i) == i < layer_idx /\ DefectPosition(i)

\* C14: a layer that is not stroke_reveal and has no html (missing or
\* empty) does not stop the render: the following layers are rendered, the
\* result's layers exclude it, and exactly one warning is recorded for it.
C14_SkippedWithOneWarning ==
    LET skipped == SelectSeq(Positions, DefectBefore)
    IN  /\ Len(warnings) = Len(skipped)
        /\ \A k \in 1..Len(skipped) :
              warnings[k] = Get(layers[skipped[k]], "id", <<"unknown">>)
        /\ \A k \in 1..Len(origin.layers) : ~DefectPosition(origin.layers[k])
        /\ Returned =>
              /\ layer_idx = Len(layers) + 1
              /\ \A i \in 1..Len(layers) :
                    RenderedPosition(i) =>
                        \E k \in 1..Len(origin.layers) : origin.layers[k] = i

\* a layer without html before a layer with html: one warning, and the
\* second layer is rendered
C14_Witness ==
    /\ Returned
    /\ Len(layers) = 2
    /\ "html" \notin DOMAIN layers[1]
    /\ warnings = << <<"unknown">> >>
    /\ origin.layers = <<2>>
    /\ scene_result.layers[1].id = <<"bg">>

StaticCall(i) == [fn |-> "render_layer_to_png", layer |-> i]

DerivedId(sceneIndex, layerIndex) ==
    <<"layer_">> \o DigitNames(Digits(sceneIndex)) \o <<"_">>
        \o DigitNames(Digits(layerIndex))

\* C16: a layer at position layerIndex that has no id or no z_index is
\* rendered as id "layer_{sceneIndex}_{layerIndex}" and z_index 100 +
\* 50*layerIndex; supplied values are kept.  (The scene given to
\* render_scene_layers is scene 0.)
C16_OrderDerivedDefaults ==
    \A k \in 1..Len(rendered_layers) :
        LET i == origin.layers[k]
            l == layers[i]
        IN  /\ rendered_layers[k].id = Get(l, "id", DerivedId(0, i - 1))
            /\ rendered_layers[k].z_index = Get(l, "z_index", 100 + 50 * (i - 1))

\* the text id occurs in the text message
Mentions(message, id) ==
    \E a \in 1..Len(message) :
        /\ a + Len(id) - 1 <= Len(message)
        /\ SubSeq(message, a, a + Len(id) - 1) = id

\* C18: a rasterizer failure reaches the caller of render_scene_layers as a
\* render error tagged with the id of the failing layer, and is never
\* swallowed.
C18_FailureTagged ==
    /\ pc = "raised" =>
          /\ error # NoDict
          /\ Mentions(error.message, IF IsStroke(layer) THEN StrokeId ELSE LayerId)
    /\ (pc = "responded" /\ error # NoDict) => http_response.status_code = 500

\* what runs when h is the handle held
Running(h) == IF h = None THEN {} ELSE {h}
Globals == <<_playwright, _browser, drivers, browsers, starts, launches>>
\* caller c calls op in this step
Calls(c, op) == Free(c) /\ task'[c] # task[c] /\ task'[c].op = op
\* the call of caller c returns in this step
Returns(c, op) == task[c].op = op /\ ~Free(c) /\ task'[c].at = "returned"

\* between calls the two globals account for all that is running
LifecycleSettled ==
    NoCallInFlight =>
        /\ browsers = Running(_browser)
        /\ drivers = Running(_playwright)
        /\ _browser # None => _playwright # None

LifecycleStep ==
    \A c \in Callers :
        /\ (Calls(c, "_get_browser") /\ _browser # None) =>
              /\ task'[c].at = "returned"
              /\ task'[c].ret = _browser
              /\ UNCHANGED Globals
        /\ (Calls(c, "_get_browser") /\ _browser = None) =>
              task'[c].at = "start"
        /\ (Calls(c, "shutdown_browser") /\ _browser = None
                /\ _playwright = None) =>
              /\ task'[c].at = "returned"
              /\ UNCHANGED Globals
        /\ Returns(c, "shutdown_browser") =>
              /\ _browser' = None /\ _playwright' = None
              /\ browsers' = {} /\ drivers' = {}
        /\ (Returns(c, "_get_browser") /\ task[c].at = "launch") =>
              /\ launches' = launches + 1
              /\ task'[c].ret \notin browsers
              /\ _browser' = task'[c].ret
              /\ browsers' = {task'[c].ret}

\* C17: in any sequence of sequential calls, once initialised every later
\* _get_browser returns the existing handle without launching again;
\* shutdown_browser with nothing initialised is a no-op, so is a second
\* shutdown after a shutdown; and after a shutdown the next _get_browser
\* launches a fresh browser.
C17_LifecycleIdempotent == []LifecycleSettled /\ [][LifecycleStep]_vars

\* after a launch, a shutdown and a second launch, both callers hold the
\* second browser
C17_Witness ==
    /\ NoCallInFlight
    /\ launches = 2
    /\ _browser = 2
    /\ browsers = {2}
    /\ \A c \in Callers : task[c].op = "_get_browser" /\ task[c].ret = 2

\* C19: after _validate_result accepts a director result, every scene holds
\* at most 15 layers, and those are the first 15 of the original layers in
\* their original order.
C19_FirstFifteenKept ==
    pc = "accepted" =>
        /\ Len(result.scenes) = Len(original.scenes)
        /\ \A i \in 1..Len(result.scenes) :
              LET kept == result.scenes[i].layers
                  given == original.scenes[i].layers
              IN  /\ Len(kept) <= 15
                  /\ Len(kept) = Min(Len(given), 15)
                  /\ \A j \in 1..Len(kept) :
                        /\ \A key \in DOMAIN given[j] :
                              key \in DOMAIN kept[j] /\ kept[j][key] = given[j][key]
                        /\ "id" \notin DOMAIN given[j] =>
                              kept[j].id = DerivedId(i - 1, j - 1)

\* a scene of 17 layers, the first with its own id, is accepted with 15
C19_Witness ==
    /\ pc = "accepted"
    /\ Len(original.scenes) = 1
    /\ Len(original.scenes[1].layers) = 17
    /\ Len(result.scenes[1].layers) = 15
    /\ result.scenes[1].layers[1].id = <<"logo">>
    /\ result.scenes[1].layers[15].id = <<"layer_", "0", "_", "1", "4">>

\* C20: _calculate_occupied_areas returns one area per group of text_layout,
\* and each area carries an element_id and a bbox with x, y, width and
\* height.
C20_OneAreaPerGroup ==
    pc = "areas_done" =>
        /\ Len(areas) = Len(text_layout)
        /\ \A k \in 1..Len(areas) :
              /\ "element_id" \in DOMAIN areas[k]
              /\ "bbox" \in DOMAIN areas[k]
              /\ {"x", "y", "width", "height"} \subseteq DOMAIN areas[k].bbox

\* the words of the input that carry emphasis, in order
RECURSIVE Flagged(_)
Flagged(words) ==
    IF words = <<>> THEN <<>>
    ELSE (IF Get(Head(words), "emphasis", FALSE)
            THEN <<Head(words).word>> ELSE <<>>) \o Flagged(Tail(words))

\* C21: the context build_motion_graphics_context returns has the top-level
\* keys transcription, words_with_positions, text_layout, canvas, duration,
\* style and emphasis_words; transcription, canvas and duration equal the
\* input values and emphasis_words holds the words flagged emphasis.
C21_FlatContext ==
    pc = "built" =>
        /\ {"transcription", "words_with_positions", "text_layout", "canvas",
            "duration", "style", "emphasis_words"} \subseteq DOMAIN context
        /\ context.transcription = Get(raw_context, "transcription", "")
        /\ context.canvas = Get(raw_context, "canvas", DefaultCanvas)
        /\ context.duration = Get(raw_context, "duration", Zero)
        /\ context.emphasis_words = Flagged(Get(raw_context, "words", <<>>))

\* the handles the calls of _get_browser have returned
Handles == {task[c].ret : c \in {d \in Callers : task[d].at = "returned"}}

\* C22: under any interleaving of render calls that reach _get_browser
\* before the first initialisation has completed, exactly one browser is
\* launched and all calls share it: never a second launched browser, and
\* none running that the process-wide handle does not reference.
C22_OneBrowser ==
    /\ launches <= 1
    /\ Cardinality(Handles) <= 1
    /\ browsers \subseteq Running(_browser)

\* one step of the frame loop: a style is applied only when every earlier
\* frame is captured, and the capture that follows takes that style
FrameStep ==
    /\ (pc = "loop" /\ pc' = "shot") =>
          /\ Len(frames) = frame_idx
          /\ css' \in FrameCss(frame_idx)
          /\ UNCHANGED <<frames, frame_idx>>
    /\ (pc = "shot" /\ pc' # pc) =>
          /\ pc' = "loop"
          /\ css \in FrameCss(frame_idx)
          /\ frames' = Append(frames, [frame |-> frame_idx, png |-> css])
          /\ frame_idx' = frame_idx + 1
          /\ css' = css
    /\ css' # css => (pc = "loop" /\ pc' = "shot")
    /\ (frames' # frames /\ pc # "store") => pc = "shot"

\* C23: within one animated layer the frames are rendered strictly one
\* after the other on one page: the style of frame f is applied and its
\* capture completed before the style of frame f+1 is applied, exactly one
\* capture is issued per frame, and no capture observes the style of
\* another frame.
C23_FramesSequential == [][FrameStep]_vars

\* the style of the fourth frame is applied, three frames are captured and
\* the last capture shows another style
C23_Witness ==
    /\ pc = "shot"
    /\ frame_idx = 3
    /\ Len(frames) = 3
    /\ anim_frames >= 4
    /\ css # frames[3].png
    /\ frames[3].png # frames[2].png

\* the frame list still holds the styles captured
StylesKept == pc \in {"loop", "shot", "store"} \/ (pc = "done" /\ ~out_dir)
\* the positions of the hold-phase frames captured so far
HoldPositions ==
    {i \in 1..Len(frames) : frames[i].frame >= delay_frames + anim_frames}

RestingStyle(effect) ==
    CASE effect = "fade_out" -> Style(0, "none", 0, FALSE)
      [] effect = "scale_out" -> Style(0, "scale", 1500, TRUE)
      [] effect \in {"scale_up", "scale_down", "bounce_in"} ->
            Style(1000, "scale", 1000, TRUE)
      [] effect \in {"slide_up", "slide_down"} ->
            Style(1000, "translateY", 0, FALSE)
      [] effect \in {"slide_left", "slide_right"} ->
            Style(1000, "translateX", 0, FALSE)
      [] OTHER -> Style(1000, "none", 0, FALSE)

AnimPositions ==
    {i \in 1..Len(frames) :
        /\ frames[i].frame >= delay_frames
        /\ frames[i].frame < delay_frames + anim_frames}

EntersFrame(f) ==
    pc = "loop" /\ pc' = "shot" /\ frame_idx = f /\ Animating(f)

\* what holds of t whatever the number of animation frames
ProgressStep ==
    \A f \in delay_frames..(delay_frames + anim_frames - 1) :
        EntersFrame(f) =>
            /\ RLe(Zero, ease_t') /\ RLe(ease_t', One)
            /\ f = delay_frames => ease_t' = Zero
            /\ f > delay_frames => RLt(ease_t, ease_t')

\* C26: for every frame plan the linear progress t of the animation-phase
\* frames lies in [0, 1], increases strictly with the frame index, is 0 at
\* the first animation frame and exactly 1 at the last one, also when
\* anim_frames == 1.
C26_ProgressReachesOne ==
    [][/\ ProgressStep
       /\ EntersFrame(delay_frames + anim_frames - 1) => ease_t' = One]_vars

\* C26 (amended): t lies in [0, 1], increases strictly and starts at 0;
\* it is exactly 1 at the last animation frame when anim_frames >= 2, and
\* with anim_frames == 1 the only animation frame has t = 0.
C26_ProgressReachesOneFromTwo ==
    [][/\ ProgressStep
       /\ (EntersFrame(delay_frames + anim_frames - 1) /\ anim_frames >= 2)
              => ease_t' = One
       /\ (EntersFrame(delay_frames) /\ anim_frames = 1) => ease_t' = Zero]_vars

\* the last of four or more animation frames is styled at t = 1, the one
\* before it having had a t between 0 and 1
C26_Witness ==
    /\ pc = "shot"
    /\ anim_frames >= 4
    /\ frame_idx = delay_frames + anim_frames - 1
    /\ ease_t = One
    /\ Len(frames) = frame_idx

\* C27: for every stroke_reveal layer with reveal.duration_ms > 0 at least
\* one mask frame is produced and the last mask frame reveals all sampled
\* points (reveal_count == len(points)).
C27_StrokeFullyRevealed ==
    (pc = "stroke_done" /\ StrokeDurationMs > 0) =>
        /\ Len(masks) >= 1
        /\ reveal_count = Len(points)

\* C27 (amended): with total_frames = int(duration_ms/1000 * fps), two or
\* more mask frames end with a mask at progress 1 that reveals all sampled
\* points; a single mask frame is generated at progress 0 and reveals one
\* point; and with total_frames == 0 no mask frame is produced.
C27_RevealedFromTwoFrames ==
    pc = "stroke_done" =>
        /\ Len(masks) = total_frames
        /\ total_frames >= 2 =>
              /\ progress = One
              /\ Len(points) = DefaultNumPoints
              /\ reveal_count = Len(points)
              /\ visible_points = points
              /\ ~out_dir => masks[total_frames].png = points
        /\ total_frames = 1 =>
              /\ progress = Zero
              /\ reveal_count = 1
              /\ visible_points = <<points[1]>>
        /\ total_frames = 0 => masks = <<>>

\* 100 ms at 30 fps: three masks, the last showing all 60 points, the one
\* before it fewer
C27_Witness ==
    /\ pc = "stroke_done" /\ ~out_dir
    /\ StrokeDurationMs = 100 /\ fps = 30
    /\ total_frames = 3
    /\ reveal_count = 60
    /\ Len(masks[3].png) = 60
    /\ Len(masks[2].png) < 60

\* the files behind an entry of the result's layers: the static raster
\* and the frames of the sequence, if there is one
LayerFiles(r) ==
    {r.png} \cup (IF r.animation_sequence = NoneDict THEN {}
                  ELSE {r.animation_sequence.frames[k].png_path :
                            k \in 1..Len(r.animation_sequence.frames)})
\* the files behind an entry of the result's stroke_reveals
StrokeFiles(r) == {r.hq} \cup {r.masks[k].png_path : k \in 1..Len(r.masks)}
\* the directories an entry reports
LayerDirs(r) ==
    IF r.animation_sequence = NoneDict THEN {}
    ELSE {r.animation_sequence.frames_dir}
\* files and directories of every entry of the result, by list and position
ResultFiles ==
    [e \in ({"layer"} \X (1..Len(scene_result.layers)))
            \cup ({"stroke"} \X (1..Len(scene_result.stroke_reveals))) |->
        IF e[1] = "layer"
        THEN LayerFiles(scene_result.layers[e[2]])
                \cup LayerDirs(scene_result.layers[e[2]])
        ELSE StrokeFiles(scene_result.stroke_reveals[e[2]])
                \cup {scene_result.stroke_reveals[e[2]].masks_dir}]

\* no two layers of the scene were given the same id
GivenIdsDiffer ==
    \A i, j \in {k \in 1..Len(layers) : "id" \in DOMAIN layers[k]} :
        i # j => layers[i].id # layers[j].id

\* C28: with an output directory, within one render_scene_layers call no
\* file is written twice: two different layers of the scene, layers given
\* without an id included, are never persisted under the same path.
C28_NoPathSharedByTwoLayers ==
    (Returned /\ out_dir /\ GivenIdsDiffer) =>
        \A a, b \in DOMAIN ResultFiles :
            a # b => ResultFiles[a] \cap ResultFiles[b] = {}

\* scene position i of the input, cut to its first 15 layers, holds a
\* layer the validation raises on
RaisesWithinCap(i) ==
    \/ "layers" \notin DOMAIN original.scenes[i]
    \/ Rejected(Truncated(original.scenes[i].layers)) # {}

\* C29: a layer that the 15-layer truncation removes has no effect on the
\* outcome of _validate_result: whether it raises, and the id and z_index
\* given to the kept layers, depend only on the first 15 layers of each
\* scene.
C29_DroppedLayersInert ==
    /\ (pc = "rejected" /\ "scenes" \in DOMAIN original) =>
          \E i \in 1..Len(original.scenes) : RaisesWithinCap(i)
    /\ pc = "accepted" =>
          /\ \A i \in 1..Len(original.scenes) : ~RaisesWithinCap(i)
          /\ \A i \in 1..Len(result.scenes) :
                \A j \in 1..Len(result.scenes[i].layers) :
                    result.scenes[i].layers[j]
                        = Filled(original.scenes[i].layers[j], i - 1, j - 1)

\* C30: for every content bounding box the rasterizer reports with
\* positive width and height, at any position, the region captured by
\* render_layer_to_png with crop_to_content lies inside the canvas and is
\* not empty.
C30_ClipInsideCanvas ==
    (pc \in {"capture", "captured", "raised"} /\ crop_to_content
        /\ HasContent(bbox)) =>
        /\ clip.x >= 0 /\ clip.y >= 0
        /\ clip.width > 0 /\ clip.height > 0
        /\ clip.x + clip.width <= canvas_width
        /\ clip.y + clip.height <= canvas_height

====
